---- MODULE Spec2Model ----
(***************************************************************************)
(* Verification model of shulkers (sks), a Minecraft server plugin         *)
(* manager: the source specification parser, the version comparator and    *)
(* the update planner of the update command, the repository registry's    *)
(* fan-out search, the adapters, the outdated and install commands and the *)
(* loading of the repository configuration.                                *)
(*                                                                         *)
(* Strings are modelled as sequences of one-character strings, so that     *)
(* indexOf, lastIndexOf, slice, split, startsWith and toLowerCase are      *)
(* computed character by character as the JavaScript runtime does.         *)
(***************************************************************************)
EXTENDS Integers, Sequences, FiniteSets, TLC

VARIABLES
    pInput,      \* parser: the input string handed to parseSource
    pMain,       \* parser: the local mainPart of parseSource
    pResult,     \* parser: the ParsedSource returned, or NotParsed
    vCurrent,    \* comparator: the installed version handed to findMinorUpdate
    vList,       \* comparator: the candidate version entries
    vResult,     \* comparator: the entry returned, NullEntry, or NotRun
    useLatest,   \* update: ctx.values.latest
    useSafe,     \* update: ctx.values.safe
    serverVersion, \* update: project.server.version
    manifest,    \* update: the dependencies of project.yml, in key order
    upstream,    \* update: the external / premium flags of each dependency's resource
    files,       \* update: the file names present in the plugin directory
    uPc,         \* update: "check", "select", "resolve", "apply" or "done"
    uIdx,        \* update: position of the running loop (1-based)
    uVersions,   \* update: the local versions of the check loop
    uTarget,     \* update: the local targetVersion of the check loop
    updates,     \* update: the UpdateInfo list
    skipped,     \* update: the skipped list
    checked,     \* update: the checked counter
    updatedCount, \* update: dependencies updated by the apply loop
    failedCount, \* update: dependencies whose update failed in the apply loop
    calls,       \* update: the adapter and download calls issued, per dependency
    repositories, \* registry: the ids of the registered adapters, in getAll() order
    sPc,         \* searchAll: "idle", "awaiting", "returned" or "threw"
    searchState, \* searchAll: per adapter, its search promise: "idle", "pending",
                 \*            "fulfilled" or "rejected"
    searchResults, \* searchAll: per adapter, the hits its search resolved with
    allResults,  \* searchAll: per adapter, the value Promise.all holds for it
    sReturn,     \* searchAll: the list returned
    cA,          \* comparator: the first argument of compareVersions
    cB,          \* comparator: the second argument of compareVersions
    cResult,     \* comparator: << >> before the calls, then the values of
                 \*             compareVersions(a, b), (b, a) and (a, a)
    aCall,       \* adapter call: the adapter, the method, how its first request
                 \*               fails and whether its later requests fail
    aOutcome,    \* adapter call: "none", then "value", "empty" or "thrown"
    gCall,       \* github: whether the id is configured, and the version asked for
    gReleases,   \* github: the release tags of the upstream repository
    gHasJar,     \* github: whether the releases carry a .jar asset
    gRequests,   \* github: the tags requested so far, in order
    gPc,         \* github: "idle", "start", "tags", "asset" or "done"
    gResult,     \* github: "none", the tag of the release returned, or the error thrown
    mVersions,   \* modrinth: the version list the upstream answers with
    mLoaders,    \* modrinth: the loaders argument
    mVersion,    \* modrinth: the version argument of getVersionDownload
    mResult,     \* modrinth: NoAnswer, then the version and file chosen or the error thrown
    jDoc,        \* generic: the JSON value of the response (or of one search item)
    jPath,       \* generic: the path of the field mappings
    jResult,     \* generic: NoOutput, then what the call returned
    command,     \* batch: the command that runs, "update" or "outdated" ("none": update alone)
    outdated,    \* outdated: the OutdatedInfo list
    oChecked,    \* outdated: the dependency checked last and the list getVersions
                 \*           returned for it
    dManifest,   \* project: the dependencies of project.yml, in key order
    dCall,       \* project: the arguments of updateDependencyVersion, the manifest
                 \*          before the call, what it returned, whether it wrote
    hAdapter,    \* adapter search: the adapter searched, "modrinth" or "spigot"
    hHits,       \* adapter search: what the upstream answers to each hit's version request
    hLoaders,    \* adapter search: options.loaders
    hPc,         \* adapter search: "idle", "awaiting" or "returned"
    hPending,    \* adapter search: the hits whose version request has not settled
    versionMap,  \* adapter search: the local versionMap, per hit
    hReturn,     \* adapter search: the version of each SearchResult returned
    rGlobal,     \* registry: the files of the global repository directory
    rLocal,      \* registry: the files of the project's repository directory
    registry,    \* registry: RepositoryManager.repositories, in insertion order
    rLast,       \* registry: per id, the adapter handed to addRepository last
    iTargets,    \* install: the parsed targets of the command
    iIdx,        \* install: position of the target loop (1-based)
    iPc,         \* install: "start", "target", the step of installFromSource that
                 \*          runs next, "done" or "threw"
    iRun,        \* install: per target, the source and id handed to installFromSource,
                 \*          its resolvedId, the steps that succeeded, how it ended
    iManifest,   \* install: the dependencies of project.yml, in key order
    iFiles,      \* install: the file names present in the plugin directory
    fMode,       \* rerun: ctx.values.latest of both runs
    fSource,     \* rerun: the source of the dependency
    fUpstream,   \* rerun: the version list of the upstream, the same in both runs
    fVersion,    \* rerun: the version the manifest records for the dependency
    fPc,         \* rerun: "first", "second" or "done"
    fRuns,       \* rerun: per run, the target selected and whether it was applied
    rPc          \* registry: "start", "loaded", "threw" (loadRepositories) or "added"

parserVars == <<pInput, pMain, pResult>>

versionVars == <<vCurrent, vList, vResult>>

updateVars ==
    <<useLatest, useSafe, serverVersion, manifest, upstream, files, uPc, uIdx, uVersions,
      uTarget, updates, skipped, checked, updatedCount, failedCount, calls>>

searchVars == <<repositories, sPc, searchState, searchResults, allResults, sReturn>>

coreVars == <<parserVars, versionVars, updateVars, searchVars>>

compareVars == <<cA, cB, cResult>>

adapterVars == <<aCall, aOutcome>>

githubVars == <<gCall, gReleases, gHasJar, gRequests, gPc, gResult>>

modrinthVars == <<mVersions, mLoaders, mVersion, mResult>>

genericVars == <<jDoc, jPath, jResult>>

outdatedVars == <<command, outdated, oChecked>>

projectVars == <<dManifest, dCall>>

fanoutVars == <<hAdapter, hHits, hLoaders, hPc, hPending, versionMap, hReturn>>

registryVars == <<rGlobal, rLocal, registry, rLast, rPc>>

installVars == <<iTargets, iIdx, iPc, iRun, iManifest, iFiles>>

rerunVars == <<fMode, fSource, fUpstream, fVersion, fPc, fRuns>>

lateVars == <<fanoutVars, registryVars, installVars, rerunVars>>

\* the variables of every model but the adapter search, the registry, the
\* install command and the configuration loader
earlyVars ==
    <<coreVars, compareVars, adapterVars, githubVars, modrinthVars, genericVars,
      outdatedVars, projectVars>>

\* every variable but those of one late model
besidesFanout == <<earlyVars, registryVars, installVars, rerunVars>>

besidesRegistry == <<earlyVars, fanoutVars, installVars, rerunVars>>

besidesInstall == <<earlyVars, fanoutVars, registryVars, rerunVars>>

besidesRerun == <<earlyVars, fanoutVars, registryVars, installVars>>

otherVars ==
    <<compareVars, adapterVars, githubVars, modrinthVars, genericVars, outdatedVars,
      projectVars, lateVars>>

vars == <<coreVars, otherVars>>

(***************************************************************************)
(* JavaScript string primitives.                                           *)
(***************************************************************************)

\* null / undefined in a string-valued field: a sequence that is no string
\* (every element of a string is a single character)
Null == <<"null">>

\* null / undefined in the source field
NullSource == "null"

\* the empty string
Empty == << >>

\* String.prototype.slice(from, to) with 0-based from (inclusive), to (exclusive)
Slice(s, from, to) == SubSeq(s, from + 1, to)

\* String.prototype.slice(from)
SliceFrom(s, from) == SubSeq(s, from + 1, Len(s))

\* String.prototype.indexOf(c): 0-based index of the first c, -1 when absent
IndexOf(s, c) ==
    IF \E i \in 1..Len(s) : s[i] = c
    THEN (CHOOSE i \in 1..Len(s) : s[i] = c /\ \A j \in 1..(i - 1) : s[j] # c) - 1
    ELSE -1

\* String.prototype.lastIndexOf(c): 0-based index of the last c, -1 when absent
LastIndexOf(s, c) ==
    IF \E i \in 1..Len(s) : s[i] = c
    THEN (CHOOSE i \in 1..Len(s) : s[i] = c /\ \A j \in (i + 1)..Len(s) : s[j] # c) - 1
    ELSE -1

\* String.prototype.startsWith(p)
StartsWith(s, p) == Len(p) <= Len(s) /\ SubSeq(s, 1, Len(p)) = p

UpperChars == <<"A", "B", "C", "D", "E", "F", "G", "H", "I", "J", "K", "L", "M",
                "N", "O", "P", "Q", "R", "S", "T", "U", "V", "W", "X", "Y", "Z">>

LowerChars == <<"a", "b", "c", "d", "e", "f", "g", "h", "i", "j", "k", "l", "m",
                "n", "o", "p", "q", "r", "s", "t", "u", "v", "w", "x", "y", "z">>

\* toLowerCase of one character
LowerChar(c) ==
    IF \E i \in 1..26 : UpperChars[i] = c
    THEN LowerChars[CHOOSE i \in 1..26 : UpperChars[i] = c]
    ELSE c

\* String.prototype.toLowerCase()
ToLowerCase(s) == [i \in 1..Len(s) |-> LowerChar(s[i])]

(***************************************************************************)
(* Source specification parser (lib/source-resolver).                      *)
(***************************************************************************)

sSpigot == <<"s", "p", "i", "g", "o", "t">>
sSpiget == <<"s", "p", "i", "g", "e", "t">>
sModrinth == <<"m", "o", "d", "r", "i", "n", "t", "h">>
sGithub == <<"g", "i", "t", "h", "u", "b">>
sConstructor == <<"c", "o", "n", "s", "t", "r", "u", "c", "t", "o", "r">>
sProto == <<"_", "_", "p", "r", "o", "t", "o", "_", "_">>

\* mutant: the legacy alias is not mapped to the canonical source
SOURCE_ALIASES_NoCanon ==
    [k \in {sSpigot, sSpiget, sModrinth, sGithub} |->
        IF k = sSpigot THEN "spigot"
        ELSE IF k = sSpiget THEN "spiget"
        ELSE IF k = sModrinth THEN "modrinth" ELSE "github"]

\* the own properties of the SOURCE_ALIASES object literal
SOURCE_ALIASES ==
    [k \in {sSpigot, sSpiget, sModrinth, sGithub} |->
        IF k \in {sSpigot, sSpiget} THEN "spigot"
        ELSE IF k = sModrinth THEN "modrinth" ELSE "github"]

\* The value of an all-lower-case property that a plain object literal
\* inherits from Object.prototype; the lookup SOURCE_ALIASES[key] walks the
\* prototype chain, so it finds these as well and they are truthy.
ObjectPrototype ==
    [k \in {sConstructor, sProto} |->
        IF k = sConstructor THEN "[Function: Object]" ELSE "[Object: null prototype] {}"]

\* SOURCE_ALIASES[sourcePrefix]: own property, else inherited, else undefined
AliasLookup(key) ==
    IF key \in DOMAIN SOURCE_ALIASES THEN SOURCE_ALIASES[key]
    ELSE IF key \in DOMAIN ObjectPrototype THEN ObjectPrototype[key]
    ELSE NullSource

\* mutant: the version delimiter is searched from the front
AtIndex_First(input) == IndexOf(input, "@")

\* const atIndex = input.lastIndexOf("@")
AtIndex(input) == LastIndexOf(input, "@")

VersionOf(input) ==
    IF AtIndex(input) > 0 THEN SliceFrom(input, AtIndex(input) + 1) ELSE Null

MainPartOf(input) ==
    IF AtIndex(input) > 0 THEN Slice(input, 0, AtIndex(input)) ELSE input

\* mutant: the alias branch keeps the main part as the query
parseSource_KeepQuery(input) ==
    LET version == VersionOf(input)
        mainPart == MainPartOf(input)
        colonIndex == IndexOf(mainPart, ":")
        sourcePrefix == ToLowerCase(Slice(mainPart, 0, colonIndex))
        source == AliasLookup(sourcePrefix)
    IN  IF colonIndex > 0 /\ source # NullSource
        THEN [source |-> source,
              id |-> SliceFrom(mainPart, colonIndex + 1),
              query |-> mainPart,
              version |-> version]
        ELSE [source |-> NullSource, id |-> Null, query |-> mainPart, version |-> version]

parseSource(input) ==
    LET version == VersionOf(input)
        mainPart == MainPartOf(input)
        colonIndex == IndexOf(mainPart, ":")
        sourcePrefix == ToLowerCase(Slice(mainPart, 0, colonIndex))
        source == AliasLookup(sourcePrefix)
    IN  IF colonIndex > 0 /\ source # NullSource
        THEN [source |-> source,
              id |-> SliceFrom(mainPart, colonIndex + 1),
              query |-> Null,
              version |-> version]
        ELSE [source |-> NullSource, id |-> Null, query |-> mainPart, version |-> version]

(***************************************************************************)
(* Version comparator and minor-update selection (commands/update).        *)
(***************************************************************************)

Digits == <<"0", "1", "2", "3", "4", "5", "6", "7", "8", "9">>

IsDigit(c) == \E i \in 1..10 : Digits[i] = c

DigitValue(c) == (CHOOSE i \in 1..10 : Digits[i] = c) - 1

\* parseInt(ds, 10) of a non-empty string of digits
RECURSIVE ParseInt(_)
ParseInt(ds) ==
    IF ds = << >> THEN 0
    ELSE 10 * ParseInt(SubSeq(ds, 1, Len(ds) - 1)) + DigitValue(ds[Len(ds)])

\* length of the longest prefix of s made of digits: what (\d+) consumes
DigitRun(s) ==
    CHOOSE n \in 0..Len(s) :
        /\ \A i \in 1..n : IsDigit(s[i])
        /\ (n < Len(s) => ~IsDigit(s[n + 1]))

\* version.replace(/^v/i, "")
StripV(version) ==
    IF version # << >> /\ version[1] \in {"v", "V"} THEN Tail(version) ELSE version

\* whether (?:\.(\d+))? takes part in the match at the head of s
HasDotNumber(s) == Len(s) >= 2 /\ s[1] = "." /\ IsDigit(s[2])

\* the digits captured by (?:\.(\d+))? at the head of s, "0" when it does
\* not take part (match[i] ?? "0")
DotNumber(s) ==
    IF HasDotNumber(s) THEN SubSeq(s, 2, 1 + DigitRun(Tail(s))) ELSE <<"0">>

\* what is left of s after (?:\.(\d+))?
AfterDotNumber(s) ==
    IF HasDotNumber(s) THEN SubSeq(s, 2 + DigitRun(Tail(s)), Len(s)) ELSE s

\* whether /^(\d+)(?:\.(\d+))?(?:\.(\d+))?(.*)$/ matches: a leading digit,
\* and no line terminator for (.*)$ to stop at
VersionMatches(cleaned) ==
    /\ DigitRun(cleaned) > 0
    /\ \A i \in 1..Len(cleaned) : cleaned[i] # "\n"

parseVersion(version) ==
    LET cleaned == StripV(version)
        n1 == DigitRun(cleaned)
        rest1 == SubSeq(cleaned, n1 + 1, Len(cleaned))
        rest2 == AfterDotNumber(rest1)
        rest3 == AfterDotNumber(rest2)
    IN  IF ~VersionMatches(cleaned)
        THEN [major |-> 0, minor |-> 0, patch |-> 0, prerelease |-> version]
        ELSE [major |-> ParseInt(SubSeq(cleaned, 1, n1)),
              minor |-> ParseInt(DotNumber(rest1)),
              patch |-> ParseInt(DotNumber(rest2)),
              prerelease |-> rest3]

\* mutant: a version with a prerelease tail always loses, whatever the
\* other version is
compareVersions_TailLoses(a, b) ==
    LET vA == parseVersion(a)
        vB == parseVersion(b)
    IN  IF vA.major # vB.major THEN (IF vA.major < vB.major THEN -1 ELSE 1)
        ELSE IF vA.minor # vB.minor THEN (IF vA.minor < vB.minor THEN -1 ELSE 1)
        ELSE IF vA.patch # vB.patch THEN (IF vA.patch < vB.patch THEN -1 ELSE 1)
        ELSE IF vA.prerelease # Empty THEN -1
        ELSE IF vB.prerelease # Empty THEN 1
        ELSE 0

\* mutant: the patch numbers are not compared
compareVersions_NoPatch(a, b) ==
    LET vA == parseVersion(a)
        vB == parseVersion(b)
    IN  IF vA.major # vB.major THEN (IF vA.major < vB.major THEN -1 ELSE 1)
        ELSE IF vA.minor # vB.minor THEN (IF vA.minor < vB.minor THEN -1 ELSE 1)
        ELSE IF vA.prerelease = Empty /\ vB.prerelease # Empty THEN 1
        ELSE IF vA.prerelease # Empty /\ vB.prerelease = Empty THEN -1
        ELSE 0

compareVersions(a, b) ==
    LET vA == parseVersion(a)
        vB == parseVersion(b)
    IN  IF vA.major # vB.major THEN (IF vA.major < vB.major THEN -1 ELSE 1)
        ELSE IF vA.minor # vB.minor THEN (IF vA.minor < vB.minor THEN -1 ELSE 1)
        ELSE IF vA.patch # vB.patch THEN (IF vA.patch < vB.patch THEN -1 ELSE 1)
        ELSE IF vA.prerelease = Empty /\ vB.prerelease # Empty THEN 1
        ELSE IF vA.prerelease # Empty /\ vB.prerelease = Empty THEN -1
        ELSE 0

\* gameVersions of an entry that has none (undefined): a list that is no
\* list of strings
Absent == <<Null>>

\* the null returned when no candidate qualifies
NullEntry == [name |-> Null, gameVersions |-> Absent]

\* mutant: the candidate's major version is not compared with the current one
RECURSIVE findMinorUpdateFrom_AnyMajor(_, _, _)
findMinorUpdateFrom_AnyMajor(currentVersion, versions, best) ==
    IF versions = << >> THEN best
    ELSE LET v == Head(versions)
             next ==
                 IF compareVersions(v.name, currentVersion) <= 0 THEN best
                 ELSE IF best = NullEntry \/ compareVersions(v.name, best.name) > 0
                      THEN v
                      ELSE best
         IN  findMinorUpdateFrom_AnyMajor(currentVersion, Tail(versions), next)

\* the for loop of findMinorUpdate, entered with the best entry so far
RECURSIVE findMinorUpdateFrom(_, _, _)
findMinorUpdateFrom(currentVersion, versions, best) ==
    IF versions = << >> THEN best
    ELSE LET v == Head(versions)
             next ==
                 IF parseVersion(v.name).major # parseVersion(currentVersion).major
                 THEN best
                 ELSE IF compareVersions(v.name, currentVersion) <= 0 THEN best
                 ELSE IF best = NullEntry \/ compareVersions(v.name, best.name) > 0
                      THEN v
                      ELSE best
         IN  findMinorUpdateFrom(currentVersion, Tail(versions), next)

findMinorUpdate(currentVersion, versions) ==
    findMinorUpdateFrom(currentVersion, versions, NullEntry)

(***************************************************************************)
(* Safe-mode compatibility and target selection of the update command.     *)
(***************************************************************************)

\* s.split(".").slice(0, 2).join("."): s up to its second '.', all of s
\* when it has fewer than two
FirstTwoParts(s) ==
    LET dots == {i \in 1..Len(s) : s[i] = "."}
    IN  IF Cardinality(dots) < 2 THEN s
        ELSE SubSeq(s, 1, (CHOOSE i \in dots : Cardinality({j \in dots : j < i}) = 1) - 1)

supportsServerVersion(gameVersions, server) ==
    IF gameVersions = Absent \/ Len(gameVersions) = 0 THEN TRUE
    ELSE \E k \in 1..Len(gameVersions) :
            \/ StartsWith(gameVersions[k], FirstTwoParts(server))
            \/ StartsWith(server, FirstTwoParts(gameVersions[k]))

\* mutant: latest mode picks the greatest entry of the list
RECURSIVE GreatestFrom(_, _)
GreatestFrom(list, best) ==
    IF list = << >> THEN best
    ELSE GreatestFrom(Tail(list),
            IF compareVersions(Head(list).name, best.name) > 0 THEN Head(list) ELSE best)

selectLatest_Greatest(current, list) ==
    LET latest == GreatestFrom(list, list[1])
    IN  IF compareVersions(current, latest.name) < 0 THEN latest ELSE NullEntry

\* latest mode: versions[0] if the installed version compares below it
selectLatest(current, list) ==
    LET latest == list[1]
    IN  IF compareVersions(current, latest.name) < 0 THEN latest ELSE NullEntry

\* the first entry of the list that is newer than the installed version
selectTarget_FirstNewer(latestMode, current, list) ==
    LET newer == {k \in 1..Len(list) : compareVersions(current, list[k].name) < 0}
    IN  IF newer = {} THEN NullEntry ELSE list[CHOOSE k \in newer : \A j \in newer : k <= j]

\* "Determine target version" of the check loop
selectTarget(latestMode, current, list) ==
    IF latestMode THEN selectLatest(current, list) ELSE findMinorUpdate(current, list)

\* const repoId = dep.source === "spigot" ? "spiget" : dep.source
RepoIdOf(source) == IF source = "spigot" THEN "spiget" ELSE source

\* the ids registered by the RepositoryManager constructor
BuiltInRepositories == {"spiget", "modrinth"}

(***************************************************************************)
(* Parser inputs: every concatenation of at most MaxTokens tokens.         *)
(***************************************************************************)

MaxTokens == 5

\* the aliases in several letter cases, an inherited property name, a short
\* word (an unknown prefix, an id or a version), and the two delimiters
Tokens ==
    { sSpigot,
      <<"S", "p", "i", "G", "e", "t">>,
      <<"M", "O", "D", "R", "I", "N", "T", "H">>,
      sGithub,
      sConstructor,
      <<"x">>,
      <<":">>,
      <<"@">> }

RECURSIVE Concat(_)
Concat(ts) == IF ts = << >> THEN << >> ELSE Head(ts) \o Concat(Tail(ts))

TokenLists == UNION {[1..n -> Tokens] : n \in 0..MaxTokens}

ParserInputs == {Concat(ts) : ts \in TokenLists}

\* the result slot of findMinorUpdate, or the local targetVersion, before it
\* is computed
NotRun == [name |-> <<"not run">>, gameVersions |-> Absent]

\* the local versions before getVersions has returned
NoList == <<NotRun>>

NotParsed == [source |-> "none", id |-> Null, query |-> Null, version |-> Null]

ParserIdle ==
    /\ pInput = Empty
    /\ pMain = Null
    /\ pResult = NotParsed

SearchIdle ==
    /\ repositories = << >>
    /\ sPc = "idle"
    /\ searchState = << >>
    /\ searchResults = << >>
    /\ allResults = << >>
    /\ sReturn = << >>

UpdateIdle ==
    /\ useLatest = FALSE
    /\ useSafe = FALSE
    /\ serverVersion = Empty
    /\ manifest = << >>
    /\ upstream = << >>
    /\ files = {}
    /\ uPc = "idle"
    /\ uIdx = 0
    /\ uVersions = NoList
    /\ uTarget = NotRun
    /\ updates = << >>
    /\ skipped = << >>
    /\ checked = 0
    /\ updatedCount = 0
    /\ failedCount = 0
    /\ calls = {}

VersionIdle ==
    /\ vCurrent = Empty
    /\ vList = << >>
    /\ vResult = NotRun

CompareIdle ==
    /\ cA = Empty
    /\ cB = Empty
    /\ cResult = << >>

NoCall == [adapter |-> "none", method |-> "none", failure |-> "none", laterFail |-> FALSE]

AdapterIdle ==
    /\ aCall = NoCall
    /\ aOutcome = "none"

GithubIdle ==
    /\ gCall = [configured |-> FALSE, version |-> Empty]
    /\ gReleases = {}
    /\ gHasJar = FALSE
    /\ gRequests = << >>
    /\ gPc = "idle"
    /\ gResult = <<"none">>

\* the result slot of a Modrinth call before the call has returned
NoAnswer == [call |-> "none", status |-> "none", index |-> 0, fileName |-> ""]

ModrinthIdle ==
    /\ mVersions = << >>
    /\ mLoaders = << >>
    /\ mVersion = Empty
    /\ mResult = NoAnswer

\* the JavaScript value undefined; a JSON value is a record of its type t,
\* its text s (strings, numbers, booleans) and its properties kids
Undefined == [t |-> "undefined", s |-> "", kids |-> << >>]

\* the result slot of a Generic call before the call has returned
NoOutput == [call |-> "none", value |-> Undefined, fields |-> << >>]

GenericIdle ==
    /\ jDoc = Undefined
    /\ jPath = Empty
    /\ jResult = NoOutput

OutdatedIdle ==
    /\ command = "none"
    /\ outdated = << >>
    /\ oChecked = [dep |-> 0, versions |-> NoList]

ProjectIdle ==
    /\ dManifest = << >>
    /\ dCall = [name |-> "", version |-> Empty, fileName |-> Empty, before |-> << >>,
                returned |-> "none", written |-> FALSE]

FanoutIdle ==
    /\ hAdapter = "none"
    /\ hHits = << >>
    /\ hLoaders = << >>
    /\ hPc = "idle"
    /\ hPending = {}
    /\ versionMap = << >>
    /\ hReturn = << >>

RegistryIdle ==
    /\ rGlobal = << >>
    /\ rLocal = << >>
    /\ registry = << >>
    /\ rLast = << >>
    /\ rPc = "idle"

InstallIdle ==
    /\ iTargets = << >>
    /\ iIdx = 0
    /\ iPc = "idle"
    /\ iRun = << >>
    /\ iManifest = << >>
    /\ iFiles = {}

RerunIdle ==
    /\ fMode = FALSE
    /\ fSource = "none"
    /\ fUpstream = << >>
    /\ fVersion = << >>
    /\ fPc = "idle"
    /\ fRuns = << >>

LateIdle == FanoutIdle /\ RegistryIdle /\ InstallIdle /\ RerunIdle

OtherIdle ==
    /\ CompareIdle /\ AdapterIdle /\ GithubIdle /\ ModrinthIdle /\ GenericIdle
    /\ OutdatedIdle /\ ProjectIdle /\ LateIdle

CoreIdle == ParserIdle /\ VersionIdle /\ UpdateIdle /\ SearchIdle

InitParser ==
    /\ pInput \in ParserInputs
    /\ pMain = Null
    /\ pResult = NotParsed
    /\ VersionIdle
    /\ UpdateIdle
    /\ SearchIdle
    /\ OtherIdle

\* installPlugin hands one target to parseSource
Parse ==
    /\ pResult = NotParsed
    /\ pMain' = MainPartOf(pInput)
    /\ pResult' = parseSource(pInput)
    /\ UNCHANGED <<pInput, versionVars, updateVars, searchVars, otherVars>>

NextParser == Parse

(***************************************************************************)
(* Comparator inputs: an installed version and at most MaxCandidates       *)
(* candidate entries.                                                      *)
(***************************************************************************)

MaxCandidates == 4

\* stable versions of two majors, a pre-release, and a two-component
\* version with a v prefix whose minor has two digits
VersionNames ==
    { <<"5", ".", "1", ".", "0">>,
      <<"5", ".", "0", ".", "9">>,
      <<"5", ".", "1", ".", "5">>,
      <<"6", ".", "0", ".", "0">>,
      <<"5", ".", "1", ".", "5", "-", "b">>,
      <<"v", "5", ".", "1", "0">> }

CandidateLists ==
    UNION {[1..n -> [name : VersionNames, gameVersions : {Absent}]] : n \in 0..MaxCandidates}

InitVersion ==
    /\ vCurrent \in VersionNames
    /\ vList \in CandidateLists
    /\ vResult = NotRun
    /\ ParserIdle
    /\ UpdateIdle
    /\ SearchIdle
    /\ OtherIdle

\* updateCommand.run in its default mode hands the installed version and the
\* adapter's version list to findMinorUpdate
FindMinor ==
    /\ vResult = NotRun
    /\ vResult' = findMinorUpdate(vCurrent, vList)
    /\ UNCHANGED <<vCurrent, vList, parserVars, updateVars, searchVars, otherVars>>

NextVersion == FindMinor

SpecVersion == InitVersion /\ [][NextVersion]_vars

SpecParser == InitParser /\ [][NextParser]_vars

(***************************************************************************)
(* The update command (commands/update): a check loop over the             *)
(* dependencies of the manifest, then an apply loop over the updates       *)
(* found.  The adapters' answers are inputs of the steps that await them.  *)
(***************************************************************************)

MaxVersions == 2

\* the keys of the dependencies a manifest may hold, in key order
DepNames == <<"p1", "p2">>

\* the version every dependency was installed at
InstalledVersion == <<"5", ".", "1", ".", "0">>

\* version names an adapter lists: older, same major and newer, next major
UpstreamNames ==
    { <<"5", ".", "0", ".", "9">>,
      <<"5", ".", "2", ".", "0">>,
      <<"6", ".", "0", ".", "0">> }

gv119 == <<"1", ".", "1", "9">>
gv125 == <<"1", ".", "2", ".", "5">>
gv1204 == <<"1", ".", "2", "0", ".", "4">>

\* game_versions of a Modrinth version
GameVersionLists == { << >>, <<gv119>>, <<gv125>>, <<gv119, gv1204>> }

ServerVersions == { <<"1", ".", "2", "0", ".", "1">> }

\* SpigetRepository.getVersions returns entries without gameVersions,
\* ModrinthRepository.getVersions copies game_versions
EntriesOf(source) ==
    IF source = "modrinth"
    THEN [name : UpstreamNames, gameVersions : GameVersionLists]
    ELSE [name : UpstreamNames, gameVersions : {Absent}]

VersionListsOf(source) == UNION {[1..n -> EntriesOf(source)] : n \in 0..MaxVersions}

\* Only a Spiget resource can be external or premium; the other adapters
\* report both flags as false.
DepKinds ==
    [source : {"spigot"}, external : BOOLEAN, premium : BOOLEAN]
        \cup [source : {"modrinth", "private"}, external : {FALSE}, premium : {FALSE}]

OldFile(i) == <<"installed", i>>

NewFile(i) == <<"downloaded", i>>

\* the state in which the check loop of update (and of outdated) starts
UpdateStart ==
    /\ useLatest \in BOOLEAN
    /\ useSafe \in BOOLEAN
    /\ serverVersion \in ServerVersions
    /\ \E n \in 0..Len(DepNames) : \E kinds \in [1..n -> DepKinds] :
          /\ manifest = [i \in 1..n |->
                [name |-> DepNames[i], source |-> kinds[i].source, id |-> i,
                 version |-> InstalledVersion, fileName |-> OldFile(i)]]
          /\ upstream = [i \in 1..n |->
                [external |-> kinds[i].external, premium |-> kinds[i].premium]]
          /\ files = {OldFile(i) : i \in 1..n}
    /\ uPc = "check"
    /\ uIdx = 1
    /\ uVersions = NoList
    /\ uTarget = NotRun
    /\ updates = << >>
    /\ skipped = << >>
    /\ checked = 0
    /\ updatedCount = 0
    /\ failedCount = 0
    /\ calls = {}

InitUpdate ==
    /\ UpdateStart
    /\ ParserIdle
    /\ VersionIdle
    /\ SearchIdle
    /\ OtherIdle

InCheck == uPc = "check" /\ uIdx <= Len(manifest)

dep == manifest[uIdx]

HasRepo(d) == RepoIdOf(d.source) \in BuiltInRepositories

Call(op, i) == [op |-> op, dep |-> i]

\* the next iteration of the check loop: its locals are gone
NextDependency ==
    /\ uPc' = "check"
    /\ uIdx' = uIdx + 1
    /\ uVersions' = NoList
    /\ uTarget' = NotRun

\* dependencyNames.length === 0
NoDependencies ==
    /\ uPc = "check"
    /\ Len(manifest) = 0
    /\ uPc' = "done"
    /\ UNCHANGED <<useLatest, useSafe, serverVersion, manifest, upstream, files, uIdx,
                   uVersions, uTarget, updates, skipped, checked, updatedCount,
                   failedCount, calls, parserVars, versionVars, searchVars, otherVars>>

\* if (!repo) continue
CheckNoRepo ==
    /\ InCheck
    /\ ~HasRepo(dep)
    /\ NextDependency
    /\ UNCHANGED <<useLatest, useSafe, serverVersion, manifest, upstream, files,
                   updates, skipped, checked, updatedCount, failedCount, calls,
                   parserVars, versionVars, searchVars, otherVars>>

\* mutant: the failure of getVersions is not caught and ends the command
CheckGetVersionsFails_Abort ==
    /\ InCheck
    /\ HasRepo(dep)
    /\ calls' = calls \cup {Call("getVersions", uIdx)}
    /\ uPc' = "done"
    /\ UNCHANGED <<useLatest, useSafe, serverVersion, manifest, upstream, files, uIdx,
                   uVersions, uTarget, updates, skipped, checked, updatedCount,
                   failedCount, parserVars, versionVars, searchVars, otherVars>>

\* repo.getVersions throws: caught, checked++
CheckGetVersionsFails ==
    /\ InCheck
    /\ HasRepo(dep)
    /\ calls' = calls \cup {Call("getVersions", uIdx)}
    /\ checked' = checked + 1
    /\ NextDependency
    /\ UNCHANGED <<useLatest, useSafe, serverVersion, manifest, upstream, files,
                   updates, skipped, updatedCount, failedCount, parserVars, versionVars, searchVars, otherVars>>

\* if (versions.length === 0) continue
CheckNoVersions ==
    /\ InCheck
    /\ HasRepo(dep)
    /\ calls' = calls \cup {Call("getVersions", uIdx)}
    /\ NextDependency
    /\ UNCHANGED <<useLatest, useSafe, serverVersion, manifest, upstream, files,
                   updates, skipped, checked, updatedCount, failedCount, parserVars,
                   versionVars, searchVars, otherVars>>

\* repo.getVersions returns a non-empty list and the target is determined
CheckGetVersions ==
    /\ InCheck
    /\ HasRepo(dep)
    /\ \E list \in VersionListsOf(dep.source) \ {<< >>} :
          /\ uVersions' = list
          /\ uTarget' = selectTarget(useLatest, dep.version, list)
    /\ calls' = calls \cup {Call("getVersions", uIdx)}
    /\ uPc' = "resolve"
    /\ UNCHANGED <<useLatest, useSafe, serverVersion, manifest, upstream, files, uIdx,
                   updates, skipped, checked, updatedCount, failedCount, parserVars,
                   versionVars, searchVars, otherVars>>

\* if (!targetVersion) { checked++; continue; }
ResolveNoTarget ==
    /\ uPc = "resolve"
    /\ uTarget = NullEntry
    /\ checked' = checked + 1
    /\ NextDependency
    /\ UNCHANGED <<useLatest, useSafe, serverVersion, manifest, upstream, files,
                   updates, skipped, updatedCount, failedCount, calls, parserVars,
                   versionVars, searchVars, otherVars>>

\* the condition of the "Safe mode check"
FailsSafeMode == useSafe /\ ~supportsServerVersion(uTarget.gameVersions, serverVersion)

\* safe mode check fails: skipped.push, checked++, continue
ResolveSkipped ==
    /\ uPc = "resolve"
    /\ uTarget # NullEntry
    /\ FailsSafeMode
    /\ skipped' = Append(skipped,
            [name |-> dep.name, reason |-> <<uTarget.name, serverVersion>>])
    /\ checked' = checked + 1
    /\ NextDependency
    /\ UNCHANGED <<useLatest, useSafe, serverVersion, manifest, upstream, files,
                   updates, updatedCount, failedCount, calls, parserVars, versionVars, searchVars, otherVars>>

\* the VersionInfo an adapter returns for entry of dependency i: the Spiget
\* file name is derived from the resource name, the Modrinth one is the
\* primary file of the version
VersionInfoOf(i, d, entry) ==
    [version |-> entry.name,
     downloadUrl |-> <<"url", i, entry.name>>,
     fileName |-> IF d.source = "spigot" THEN OldFile(i) ELSE NewFile(i)]

\* repo.getVersionDownload returns: updates.push, checked++
ResolveDownload ==
    /\ uPc = "resolve"
    /\ uTarget # NullEntry
    /\ ~FailsSafeMode
    /\ calls' = calls \cup {Call("getVersionDownload", uIdx)}
    /\ updates' = Append(updates,
            [name |-> dep.name, source |-> dep.source, id |-> dep.id,
             current |-> dep.version, target |-> uTarget,
             targetVersionInfo |-> VersionInfoOf(uIdx, dep, uTarget),
             oldFileName |-> dep.fileName])
    /\ checked' = checked + 1
    /\ NextDependency
    /\ UNCHANGED <<useLatest, useSafe, serverVersion, manifest, upstream, files,
                   skipped, updatedCount, failedCount, parserVars, versionVars, searchVars, otherVars>>

\* repo.getVersionDownload throws: caught, checked++
ResolveDownloadFails ==
    /\ uPc = "resolve"
    /\ uTarget # NullEntry
    /\ ~FailsSafeMode
    /\ calls' = calls \cup {Call("getVersionDownload", uIdx)}
    /\ checked' = checked + 1
    /\ NextDependency
    /\ UNCHANGED <<useLatest, useSafe, serverVersion, manifest, upstream, files,
                   updates, skipped, updatedCount, failedCount, parserVars, versionVars, searchVars, otherVars>>

\* the check loop is over: return when there is nothing to apply
FinishCheck ==
    /\ uPc = "check"
    /\ Len(manifest) > 0
    /\ uIdx > Len(manifest)
    /\ uPc' = IF updates = << >> THEN "done" ELSE "apply"
    /\ uIdx' = 1
    /\ UNCHANGED <<useLatest, useSafe, serverVersion, manifest, upstream, files,
                   uVersions, uTarget, updates, skipped, checked, updatedCount,
                   failedCount, calls, parserVars, versionVars, searchVars, otherVars>>

InApply == uPc = "apply" /\ uIdx <= Len(updates)

update == updates[uIdx]

\* position in the manifest of the record called name, 0 when there is none
IndexOfName(name) ==
    IF \E i \in 1..Len(manifest) : manifest[i].name = name
    THEN CHOOSE i \in 1..Len(manifest) : manifest[i].name = name
    ELSE 0

updateDependencyVersion(deps, name, version, fileName) ==
    [i \in 1..Len(deps) |->
        IF deps[i].name = name
        THEN [deps[i] EXCEPT !.version = version,
                             !.fileName = IF fileName # << >> THEN fileName ELSE @]
        ELSE deps[i]]

\* one update applied: old file unlinked, new file downloaded, manifest written
ApplyUpdate ==
    /\ InApply
    /\ files' = (files \ {update.oldFileName}) \cup {update.targetVersionInfo.fileName}
    /\ calls' = calls \cup {Call("downloadFile", IndexOfName(update.name))}
    /\ manifest' = updateDependencyVersion(manifest, update.name,
                        update.targetVersionInfo.version,
                        update.targetVersionInfo.fileName)
    /\ updatedCount' = updatedCount + 1
    /\ uIdx' = uIdx + 1
    /\ UNCHANGED <<useLatest, useSafe, serverVersion, upstream, uPc, uVersions,
                   uTarget, updates, skipped, checked, failedCount, parserVars,
                   versionVars, searchVars, otherVars>>

\* downloadFile throws after the old file was unlinked: failedCount++
ApplyFails ==
    /\ InApply
    /\ files' = files \ {update.oldFileName}
    /\ calls' = calls \cup {Call("downloadFile", IndexOfName(update.name))}
    /\ failedCount' = failedCount + 1
    /\ uIdx' = uIdx + 1
    /\ UNCHANGED <<useLatest, useSafe, serverVersion, manifest, upstream, uPc,
                   uVersions, uTarget, updates, skipped, checked, updatedCount,
                   parserVars, versionVars, searchVars, otherVars>>

\* the apply loop is over: the summary is printed
FinishApply ==
    /\ uPc = "apply"
    /\ uIdx > Len(updates)
    /\ uPc' = "done"
    /\ UNCHANGED <<useLatest, useSafe, serverVersion, manifest, upstream, files, uIdx,
                   uVersions, uTarget, updates, skipped, checked, updatedCount,
                   failedCount, calls, parserVars, versionVars, searchVars, otherVars>>

NextUpdate ==
    \/ NoDependencies
    \/ CheckNoRepo
    \/ CheckGetVersionsFails
    \/ CheckNoVersions
    \/ CheckGetVersions
    \/ ResolveNoTarget
    \/ ResolveSkipped
    \/ ResolveDownload
    \/ ResolveDownloadFails
    \/ FinishCheck
    \/ ApplyUpdate
    \/ ApplyFails
    \/ FinishApply

SpecUpdate == InitUpdate /\ [][NextUpdate]_vars

(***************************************************************************)
(* The outdated command (commands/outdated), and the two batch commands    *)
(* side by side.  Its loop begins like the check loop of update: no        *)
(* dependencies, no adapter, getVersions throwing or returning no version. *)
(***************************************************************************)

\* repo.getVersions returns a non-empty list: outdated.push when the first
\* entry is newer than the installed version, checked++
OutdatedCheck ==
    /\ InCheck
    /\ HasRepo(dep)
    /\ \E list \in VersionListsOf(dep.source) \ {<< >>} :
          LET latestVersion == list[1].name
              minorUpdate == findMinorUpdate(dep.version, list).name
          IN  /\ outdated' =
                  IF compareVersions(dep.version, latestVersion) < 0
                  THEN Append(outdated,
                          [name |-> dep.name, source |-> dep.source, id |-> dep.id,
                           current |-> dep.version, update |-> minorUpdate,
                           latest |-> latestVersion])
                  ELSE outdated
              /\ oChecked' = [dep |-> uIdx, versions |-> list]
    /\ calls' = calls \cup {Call("getVersions", uIdx)}
    /\ checked' = checked + 1
    /\ NextDependency
    /\ UNCHANGED <<useLatest, useSafe, serverVersion, manifest, upstream, files, updates,
                   skipped, updatedCount, failedCount, command, parserVars, versionVars,
                   searchVars, compareVars, adapterVars, githubVars, modrinthVars,
                   genericVars, projectVars, lateVars>>

NextOutdated ==
    \/ NoDependencies
    \/ CheckNoRepo
    \/ CheckGetVersionsFails
    \/ CheckNoVersions
    \/ OutdatedCheck
    \/ FinishCheck

InitBatch ==
    /\ UpdateStart
    /\ command \in {"update", "outdated"}
    /\ command = "outdated" => (~useLatest /\ ~useSafe)
    /\ outdated = << >>
    /\ oChecked = [dep |-> 0, versions |-> NoList]
    /\ ParserIdle
    /\ VersionIdle
    /\ SearchIdle
    /\ CompareIdle
    /\ AdapterIdle
    /\ GithubIdle
    /\ ModrinthIdle
    /\ GenericIdle
    /\ ProjectIdle
    /\ LateIdle

SpecBatch ==
    InitBatch
    /\ [][(command = "update" /\ NextUpdate) \/ (command = "outdated" /\ NextOutdated)]_vars

(***************************************************************************)
(* RepositoryManager.searchAll (lib/repositories/manager): every adapter's *)
(* search is started, each with its own catch handler, and Promise.all     *)
(* waits for all of them.  When and how a search settles is the            *)
(* environment's choice.                                                   *)
(***************************************************************************)

MaxRepositories == 3

MaxHits == 2

\* the ids of the hits an adapter can report
HitIds == {"a", "b"}

\* the SearchResult lists adapter i can resolve with
HitListsOf(i) == UNION {[1..n -> [source : {i}, id : HitIds]] : n \in 0..MaxHits}

\* the slot of Promise.all for a promise that has not settled
NotSettled == <<[source |-> 0, id |-> "not settled"]>>

\* the slot of Promise.all for a promise that rejected
Rejection == <<[source |-> 0, id |-> "rejection"]>>

\* mutant: the error of a failed search is passed on
CaughtValue_Rethrow == Rejection

\* the value of the catch handler of searchAll: [] as SearchResult[]
CaughtValue == << >>

\* Array.prototype.flat() of the first n slots
RECURSIVE FlatUpTo(_, _)
FlatUpTo(slots, n) == IF n = 0 THEN << >> ELSE FlatUpTo(slots, n - 1) \o slots[n]

InitSearch ==
    /\ \E n \in 2..MaxRepositories : repositories = [i \in 1..n |-> i]
    /\ sPc = "idle"
    /\ searchState = [i \in 1..Len(repositories) |-> "idle"]
    /\ searchResults = [i \in 1..Len(repositories) |-> << >>]
    /\ allResults = [i \in 1..Len(repositories) |-> NotSettled]
    /\ sReturn = << >>
    /\ ParserIdle
    /\ VersionIdle
    /\ UpdateIdle
    /\ OtherIdle

\* searchAll(query): this.getAll().map(repo => repo.search(query).catch(...))
SearchAllCall ==
    /\ sPc = "idle"
    /\ sPc' = "awaiting"
    /\ searchState' = [i \in 1..Len(repositories) |-> "pending"]
    /\ UNCHANGED <<repositories, searchResults, allResults, sReturn,
                   parserVars, versionVars, updateVars, otherVars>>

\* the search of adapter i resolves with a list of hits
SearchFulfils(i) ==
    /\ searchState[i] = "pending"
    /\ \E hits \in HitListsOf(i) :
          /\ searchResults' = [searchResults EXCEPT ![i] = hits]
          /\ allResults' = [allResults EXCEPT ![i] = hits]
    /\ searchState' = [searchState EXCEPT ![i] = "fulfilled"]
    /\ UNCHANGED <<repositories, sPc, sReturn, parserVars, versionVars, updateVars, otherVars>>

\* the search of adapter i rejects: its catch handler logs the error and
\* supplies the value; Promise.all rejects if a promise handed to it rejects
SearchRejects(i) ==
    /\ searchState[i] = "pending"
    /\ searchState' = [searchState EXCEPT ![i] = "rejected"]
    /\ allResults' = [allResults EXCEPT ![i] = CaughtValue]
    /\ sPc' = IF CaughtValue = Rejection /\ sPc = "awaiting" THEN "threw" ELSE sPc
    /\ UNCHANGED <<repositories, searchResults, sReturn, parserVars, versionVars,
                   updateVars, otherVars>>

\* every promise handed to Promise.all has fulfilled: return allResults.flat()
SearchAllReturns ==
    /\ sPc = "awaiting"
    /\ \A i \in 1..Len(repositories) : allResults[i] \notin {NotSettled, Rejection}
    /\ sReturn' = FlatUpTo(allResults, Len(repositories))
    /\ sPc' = "returned"
    /\ UNCHANGED <<repositories, searchState, searchResults, allResults,
                   parserVars, versionVars, updateVars, otherVars>>

NextSearch ==
    \/ SearchAllCall
    \/ \E i \in 1..Len(repositories) : SearchFulfils(i)
    \/ \E i \in 1..Len(repositories) : SearchRejects(i)
    \/ SearchAllReturns

SpecSearch == InitSearch /\ [][NextSearch]_vars

\* The event loop runs the map of searchAll and the continuation of
\* Promise.all once it is ready; nothing in the sources bounds the time an
\* adapter's request takes, so no fairness is stated for a search settling.
FairSpecSearch ==
    SpecSearch /\ WF_vars(SearchAllCall) /\ WF_vars(SearchAllReturns)

(***************************************************************************)
(* compareVersions called on two version strings (commands/update,         *)
(* commands/outdated).                                                     *)
(***************************************************************************)

\* the version strings compared: an optional leading v, a major number (or
\* none, which leaves a string that starts with no digit), an optional
\* minor (10 against 2 tells numeric from textual order), an optional patch
\* and an optional tail
VersionStrings ==
    { v \o major \o minor \o patch \o tail :
        v \in {<< >>, <<"v">>},
        major \in {<< >>, <<"0">>, <<"1">>},
        minor \in {<< >>, <<".", "0">>, <<".", "2">>, <<".", "1", "0">>},
        patch \in {<< >>, <<".", "0">>, <<".", "3">>},
        tail \in {<< >>, <<"-", "b">>, <<"-", "r", "c">>} }

InitCompare ==
    /\ cA \in VersionStrings
    /\ cB \in VersionStrings
    /\ cResult = << >>
    /\ CoreIdle
    /\ AdapterIdle
    /\ GithubIdle
    /\ ModrinthIdle
    /\ GenericIdle
    /\ OutdatedIdle
    /\ ProjectIdle
    /\ LateIdle

\* compareVersions(a, b), and the calls with the arguments swapped and
\* with the same argument twice
Compare ==
    /\ cResult = << >>
    /\ cResult' = <<compareVersions(cA, cB), compareVersions(cB, cA), compareVersions(cA, cA)>>
    /\ UNCHANGED <<cA, cB, coreVars, adapterVars, githubVars, modrinthVars,
                   genericVars, outdatedVars, projectVars, lateVars>>

SpecCompare == InitCompare /\ [][Compare]_vars

(***************************************************************************)
(* One call of an adapter method against a failing upstream                *)
(* (repositories/spiget, modrinth, generic, github).                       *)
(***************************************************************************)

\* SpigetRepository: search catches every failure of its request and
\* returns []; the other methods await their requests without a catch
SpigetOutcome(method, failure, laterFail) ==
    IF method = "search"
    THEN (IF failure # "none" THEN "empty" ELSE "value")
    ELSE IF failure # "none" THEN "thrown"
    ELSE IF method \in {"getLatestVersion", "getVersionDownload"} /\ laterFail THEN "thrown"
    ELSE "value"

\* ModrinthRepository: no request is guarded but the per-project version
\* requests of search and the members request of getResource
ModrinthOutcome(method, failure, laterFail) ==
    IF failure # "none" THEN "thrown" ELSE "value"

\* GenericRepository: every method awaits one request without a catch
GenericOutcome(method, failure, laterFail) ==
    IF failure # "none" THEN "thrown" ELSE "value"

\* GitHubRepository, with the id configured: search skips a matching
\* repository whose request fails; getVersionDownload retries a failed
\* request with the other spellings of the tag
GitHubOutcome(method, failure, laterFail) ==
    IF method = "search"
    THEN (IF failure # "none" THEN "empty" ELSE "value")
    ELSE IF failure = "none" THEN "value"
    ELSE IF method = "getVersionDownload" /\ ~laterFail THEN "value"
    ELSE "thrown"

InitAdapter ==
    \* the first request of the call succeeds, is answered 404 Not Found, or
    \* finds the upstream unavailable (network failure, 5xx, a body that
    \* does not parse); laterFail: the requests after the first fail too
    /\ aCall \in [adapter : {sSpigot, sModrinth, <<"g", "e", "n", "e", "r", "i", "c">>, sGithub},
                  method : {"search", "getResource", "getVersions", "getLatestVersion",
                            "getVersionDownload"},
                  failure : {"none", "notFound", "unavailable"},
                  laterFail : BOOLEAN]
    /\ aOutcome = "none"
    /\ CoreIdle
    /\ CompareIdle
    /\ GithubIdle
    /\ ModrinthIdle
    /\ GenericIdle
    /\ OutdatedIdle
    /\ ProjectIdle
    /\ LateIdle

AdapterCall ==
    /\ aOutcome = "none"
    /\ aOutcome' =
          IF aCall.adapter = sSpigot
          THEN SpigetOutcome(aCall.method, aCall.failure, aCall.laterFail)
          ELSE IF aCall.adapter = sModrinth
          THEN ModrinthOutcome(aCall.method, aCall.failure, aCall.laterFail)
          ELSE IF aCall.adapter = sGithub
          THEN GitHubOutcome(aCall.method, aCall.failure, aCall.laterFail)
          ELSE GenericOutcome(aCall.method, aCall.failure, aCall.laterFail)
    /\ UNCHANGED <<aCall, coreVars, compareVars, githubVars, modrinthVars,
                   genericVars, outdatedVars, projectVars, lateVars>>

SpecAdapter == InitAdapter /\ [][AdapterCall]_vars

(***************************************************************************)
(* GitHubRepository.getVersionDownload (repositories/github).              *)
(***************************************************************************)

\* mutant: the tag without the v is tried before the tag with it
TagOfAttempt_StripFirst(version, k) ==
    IF k = 1 THEN version
    ELSE IF k = 3 THEN (IF StartsWith(version, <<"v">>) THEN version ELSE <<"v">> \o version)
    ELSE (IF StartsWith(version, <<"v">>) THEN Tail(version) ELSE version)

\* the tag of the k-th request: version, then withV, then noV
TagOfAttempt(version, k) ==
    IF k = 1 THEN version
    ELSE IF k = 2 THEN (IF StartsWith(version, <<"v">>) THEN version ELSE <<"v">> \o version)
    ELSE (IF StartsWith(version, <<"v">>) THEN Tail(version) ELSE version)

InitGithub ==
    /\ gCall \in [configured : BOOLEAN,
                  version : {<<"1", ".", "0">>, <<"v", "1", ".", "0">>}]
    /\ gReleases \in SUBSET {<<"1", ".", "0">>, <<"v", "1", ".", "0">>}
    /\ gHasJar \in BOOLEAN
    /\ gRequests = << >>
    /\ gPc = "start"
    /\ gResult = <<"none">>
    /\ CoreIdle
    /\ CompareIdle
    /\ AdapterIdle
    /\ ModrinthIdle
    /\ GenericIdle
    /\ OutdatedIdle
    /\ ProjectIdle
    /\ LateIdle

\* this.repositories.get(id); throws when the id is not configured
GithubLookup ==
    /\ gPc = "start"
    /\ IF gCall.configured
       THEN gPc' = "tags" /\ gResult' = gResult
       ELSE gPc' = "done" /\ gResult' = <<"repository not found">>
    /\ UNCHANGED <<gCall, gReleases, gHasJar, gRequests, coreVars, compareVars, adapterVars,
                   modrinthVars, genericVars, outdatedVars, projectVars, lateVars>>

\* one request for a release by tag resolves: only a tag of the upstream can
GithubTagResolves ==
    /\ gPc = "tags"
    /\ LET tag == TagOfAttempt(gCall.version, Len(gRequests) + 1)
       IN  /\ tag \in gReleases
           /\ gRequests' = Append(gRequests, tag)
           /\ gResult' = tag
    /\ gPc' = "asset"
    /\ UNCHANGED <<gCall, gReleases, gHasJar, coreVars, compareVars, adapterVars,
                   modrinthVars, genericVars, outdatedVars, projectVars, lateVars>>

\* one request for a release by tag fails (no such tag, or any other
\* failure): the catch goes on to the next spelling, and the failure of the
\* third request is thrown
GithubTagMisses ==
    /\ gPc = "tags"
    /\ gRequests' = Append(gRequests, TagOfAttempt(gCall.version, Len(gRequests) + 1))
    /\ IF Len(gRequests) = 2
       THEN gPc' = "done" /\ gResult' = <<"request failed">>
       ELSE gPc' = "tags" /\ gResult' = gResult
    /\ UNCHANGED <<gCall, gReleases, gHasJar, coreVars, compareVars, adapterVars,
                   modrinthVars, genericVars, outdatedVars, projectVars, lateVars>>

\* release.assets.find(.jar); throws when the release has none
GithubSelectAsset ==
    /\ gPc = "asset"
    /\ gPc' = "done"
    /\ gResult' = IF gHasJar THEN gResult ELSE <<"no jar asset">>
    /\ UNCHANGED <<gCall, gReleases, gHasJar, gRequests, coreVars, compareVars, adapterVars,
                   modrinthVars, genericVars, outdatedVars, projectVars, lateVars>>

SpecGithub ==
    InitGithub
    /\ [][GithubLookup \/ GithubTagResolves \/ GithubTagMisses \/ GithubSelectAsset]_vars

(***************************************************************************)
(* ModrinthRepository.getLatestVersion and getVersionDownload              *)
(* (repositories/modrinth).                                                *)
(***************************************************************************)

MaxModrinthVersions == 2

sPaper == <<"p", "a", "p", "e", "r">>

sFabric == <<"f", "a", "b", "r", "i", "c">>

\* the files of a version: none, one, two with the second flagged primary,
\* two with none flagged
ModrinthFileLists ==
    { << >>,
      << [filename |-> "a.jar", primary |-> FALSE] >>,
      << [filename |-> "a.jar", primary |-> FALSE], [filename |-> "b.jar", primary |-> TRUE] >>,
      << [filename |-> "a.jar", primary |-> FALSE], [filename |-> "b.jar", primary |-> FALSE] >> }

\* the version lists of the upstream; the id of a version is its place in
\* the list
ModrinthVersionLists ==
    UNION { [1..n -> [version_number : {<<"1", ".", "0">>, <<"2", ".", "0">>},
                      loaders : {<<sPaper>>, <<sFabric>>},
                      files : ModrinthFileLists]] : n \in 0..MaxModrinthVersions }

\* the id of the k-th version of the list
ModrinthIdOf(k) == <<"i", "d">> \o <<Digits[k + 1]>>

\* v.loaders.some((l) => loaders.includes(l.toLowerCase()))
HasLoader(v, loaders) ==
    \E i \in 1..Len(v.loaders) : \E j \in 1..Len(loaders) :
        loaders[j] = ToLowerCase(v.loaders[i])

\* files.find((f) => f.primary) || files[0]; 0 when there is no file
PrimaryFileOf(fs) ==
    IF \E i \in 1..Len(fs) : fs[i].primary
    THEN CHOOSE i \in 1..Len(fs) :
            fs[i].primary /\ \A j \in 1..(i - 1) : ~fs[j].primary
    ELSE IF fs # << >> THEN 1 ELSE 0

\* the VersionInfo built from the version at place k, or the error thrown
ModrinthAnswer(call, versions, k) ==
    IF k = 0 THEN [call |-> call, status |-> "no version", index |-> 0, fileName |-> ""]
    ELSE IF PrimaryFileOf(versions[k].files) = 0
    THEN [call |-> call, status |-> "no files", index |-> k, fileName |-> ""]
    ELSE [call |-> call, status |-> "value", index |-> k,
          fileName |-> versions[k].files[PrimaryFileOf(versions[k].files)].filename]

\* versions.filter((v) => v.loaders.some(...)): the places of the versions
\* kept, in order
FilterByLoaders(versions, loaders) ==
    LET F[k \in 0..Len(versions)] ==
            IF k = 0 THEN << >>
            ELSE IF HasLoader(versions[k], loaders) THEN Append(F[k - 1], k) ELSE F[k - 1]
    IN  F[Len(versions)]

ModrinthGetLatestVersion(versions, loaders) ==
    LET all == [k \in 1..Len(versions) |-> k]
        filtered == FilterByLoaders(versions, loaders)
        compatibleVersions ==
            IF Len(loaders) > 0 /\ Len(filtered) > 0 THEN filtered ELSE all
    IN  ModrinthAnswer("getLatestVersion", versions,
            IF compatibleVersions = << >> THEN 0 ELSE compatibleVersions[1])

ModrinthGetVersionDownload(versions, version, loaders) ==
    LET found == {k \in 1..Len(versions) :
                    versions[k].version_number = version \/ ModrinthIdOf(k) = version}
    IN  ModrinthAnswer("getVersionDownload", versions,
            IF found = {} THEN 0 ELSE CHOOSE k \in found : \A j \in found : k <= j)

InitModrinth ==
    /\ mVersions \in ModrinthVersionLists
    /\ mLoaders \in {<< >>, <<sPaper>>}
    /\ mVersion \in {<<"1", ".", "0">>, ModrinthIdOf(2)}
    /\ mResult = NoAnswer
    /\ CoreIdle
    /\ CompareIdle
    /\ AdapterIdle
    /\ GithubIdle
    /\ GenericIdle
    /\ OutdatedIdle
    /\ ProjectIdle
    /\ LateIdle

ModrinthLatest ==
    /\ mResult = NoAnswer
    /\ mResult' = ModrinthGetLatestVersion(mVersions, mLoaders)
    /\ UNCHANGED <<mVersions, mLoaders, mVersion, coreVars, compareVars, adapterVars,
                   githubVars, genericVars, outdatedVars, projectVars, lateVars>>

ModrinthDownload ==
    /\ mResult = NoAnswer
    /\ mResult' = ModrinthGetVersionDownload(mVersions, mVersion, mLoaders)
    /\ UNCHANGED <<mVersions, mLoaders, mVersion, coreVars, compareVars, adapterVars,
                   githubVars, genericVars, outdatedVars, projectVars, lateVars>>

SpecModrinth == InitModrinth /\ [][ModrinthLatest \/ ModrinthDownload]_vars

(***************************************************************************)
(* GenericRepository: toSafeString, resolvePath, search, getLatestVersion  *)
(* (repositories/generic).                                                 *)
(***************************************************************************)

\* JSON values: a text, an object of the given properties, an array
JText(t, s) == [t |-> t, s |-> s, kids |-> << >>]

JObject(kids) == [t |-> "object", s |-> "", kids |-> kids]

JArray(items) ==
    [t |-> "array", s |-> "",
     kids |-> [k \in 1..Len(items) |-> [key |-> <<Digits[k]>>, val |-> items[k]]]]

\* the responses: {a:{b:[{c:"x"}]}}, {}, an object of a string, a number, a
\* boolean, a null and an object, ["x"], "str", null
JsonDocs ==
    { JObject(<< [key |-> <<"a">>,
                  val |-> JObject(<< [key |-> <<"b">>,
                      val |-> JArray(<< JObject(<< [key |-> <<"c">>,
                                                    val |-> JText("string", "x")] >>) >>)] >>)] >>),
      JObject(<< >>),
      JObject(<< [key |-> <<"a">>, val |-> JText("string", "s")],
                 [key |-> <<"n">>, val |-> JText("number", "5")],
                 [key |-> <<"t">>, val |-> JText("boolean", "true")],
                 [key |-> <<"z">>, val |-> JText("null", "")],
                 [key |-> <<"o">>, val |-> JObject(<< >>)] >>),
      JArray(<< JText("string", "x") >>),
      JText("string", "str"),
      JText("null", "") }

JsonPaths ==
    { << >>, <<"a">>, <<"a", ".", "b", ".", "0", ".", "c">>, <<"a", ".", "b", ".", "c">>,
      <<"a", ".", "b">>, <<"a", ".", "b", ".", "1">>, <<"a", ".", ".", "b">>,
      <<"n">>, <<"t">>, <<"z">>, <<"z", ".", "a">>, <<"o">>, <<"0">>,
      <<"l", "e", "n", "g", "t", "h">>, sConstructor,
      <<"a", ".", "b", ".", "l", "e", "n", "g", "t", "h">> }

\* path.split(".")
RECURSIVE Split(_)
Split(path) ==
    LET dot == IndexOf(path, ".")
    IN  IF dot < 0 THEN <<path>>
        ELSE <<Slice(path, 0, dot)>> \o Split(SliceFrom(path, dot + 1))

\* o[i] for an object or an array o, properties found along the prototype
\* chain included (the length of an array, the inherited constructor);
\* Undefined when i in o is false
GetProperty(o, i) ==
    IF \E k \in 1..Len(o.kids) : o.kids[k].key = i
    THEN o.kids[CHOOSE k \in 1..Len(o.kids) : o.kids[k].key = i].val
    ELSE IF o.t = "array" /\ i = <<"l", "e", "n", "g", "t", "h">>
    THEN JText("number", Digits[Len(o.kids) + 1])
    ELSE IF i = sConstructor THEN JText("function", "")
    ELSE Undefined

\* the reduce of resolvePath over the segments left
RECURSIVE resolvePathFrom(_, _)
resolvePathFrom(o, segments) ==
    IF segments = << >> THEN o
    ELSE resolvePathFrom(
            IF o.t \in {"object", "array"} THEN GetProperty(o, Head(segments)) ELSE Undefined,
            Tail(segments))

resolvePath(obj, path) ==
    IF path = << >> THEN obj ELSE resolvePathFrom(obj, Split(path))

\* String(value)
RECURSIVE JsString(_)
JsString(value) ==
    IF value.t = "undefined" THEN "undefined"
    ELSE IF value.t = "null" THEN "null"
    ELSE IF value.t = "object" THEN "[object Object]"
    ELSE IF value.t = "function" THEN "function Object() { [native code] }"
    ELSE IF value.t = "array"
    THEN LET Join[k \in 0..Len(value.kids)] ==
                IF k = 0 THEN ""
                ELSE LET item == value.kids[k].val
                         text == IF item.t \in {"undefined", "null"} THEN "" ELSE JsString(item)
                     IN  IF k = 1 THEN text ELSE Join[k - 1] \o "," \o text
         IN  Join[Len(value.kids)]
    ELSE value.s

toSafeString(value) ==
    IF value.t \in {"null", "undefined"} THEN ""
    ELSE IF value.t = "string" THEN value.s
    ELSE IF value.t \in {"number", "boolean"} THEN JsString(value)
    ELSE ""

\* x || fallback for a string x
OrElse(x, fallback) == IF x = "" THEN fallback ELSE x

InitGeneric ==
    /\ jDoc \in JsonDocs
    /\ jPath \in JsonPaths
    /\ jResult = NoOutput
    /\ CoreIdle
    /\ CompareIdle
    /\ AdapterIdle
    /\ GithubIdle
    /\ ModrinthIdle
    /\ OutdatedIdle
    /\ ProjectIdle
    /\ LateIdle

GenericResolvePath ==
    /\ jResult = NoOutput
    /\ jResult' = [call |-> "resolvePath", value |-> resolvePath(jDoc, jPath), fields |-> << >>]
    /\ UNCHANGED <<jDoc, jPath, coreVars, compareVars, adapterVars, githubVars, modrinthVars,
                   outdatedVars, projectVars, lateVars>>

\* the callback of results.map in search, every mapping being jPath: the
\* id, name, description and author of the SearchResult
GenericSearchItem ==
    /\ jResult = NoOutput
    /\ LET text == toSafeString(resolvePath(jDoc, jPath))
       IN  jResult' = [call |-> "search", value |-> Undefined,
                       fields |-> <<OrElse(text, ""), OrElse(text, "Unknown"), text,
                                    OrElse(text, "Unknown")>>]
    /\ UNCHANGED <<jDoc, jPath, coreVars, compareVars, adapterVars, githubVars, modrinthVars,
                   outdatedVars, projectVars, lateVars>>

\* getLatestVersion("p"), every version mapping being jPath (an empty
\* mapping is falsy): the version, downloadUrl and fileName of the VersionInfo
GenericGetLatestVersion ==
    /\ jResult = NoOutput
    /\ LET version == toSafeString(resolvePath(jDoc, jPath))
           fileName == IF jPath # << >> THEN JsString(resolvePath(jDoc, jPath))
                       ELSE "p-" \o version \o ".jar"
           downloadUrl == IF jPath # << >> THEN JsString(resolvePath(jDoc, jPath)) ELSE ""
       IN  jResult' = [call |-> "getLatestVersion", value |-> Undefined,
                       fields |-> <<version, downloadUrl, fileName>>]
    /\ UNCHANGED <<jDoc, jPath, coreVars, compareVars, adapterVars, githubVars, modrinthVars,
                   outdatedVars, projectVars, lateVars>>

SpecGeneric ==
    InitGeneric /\ [][GenericResolvePath \/ GenericSearchItem \/ GenericGetLatestVersion]_vars

(***************************************************************************)
(* updateDependencyVersion called on a manifest (lib/project).             *)
(***************************************************************************)

InitProject ==
    /\ \E n \in 0..Len(DepNames) : \E sources \in [1..n -> {"spigot", "modrinth"}] :
          dManifest = [i \in 1..n |->
                [name |-> DepNames[i], source |-> sources[i], id |-> i,
                 version |-> InstalledVersion, fileName |-> OldFile(i)]]
    /\ \E name \in {"p1", "p2", "p3", "constructor"} : \E version \in UpstreamNames :
       \E fileName \in {NewFile(1), << >>} :
          dCall = [name |-> name, version |-> version, fileName |-> fileName,
                   before |-> dManifest, returned |-> "none", written |-> FALSE]
    /\ CoreIdle
    /\ CompareIdle
    /\ AdapterIdle
    /\ GithubIdle
    /\ ModrinthIdle
    /\ GenericIdle
    /\ OutdatedIdle
    /\ LateIdle

\* updateDependencyVersion(name, version, fileName): name in
\* config.dependencies is true for a key of the manifest and for a property
\* every object inherits, whose value is truthy and is no record of the file
UpdateDependencyVersionCall ==
    /\ dCall.returned = "none"
    /\ LET own == \E i \in 1..Len(dManifest) : dManifest[i].name = dCall.name
           inherited == dCall.name \in {"constructor", "toString", "valueOf"}
       IN  IF own \/ inherited
           THEN /\ dManifest' = updateDependencyVersion(dManifest, dCall.name,
                                    dCall.version, dCall.fileName)
                /\ dCall' = [dCall EXCEPT !.returned = "true", !.written = TRUE]
           ELSE /\ dManifest' = dManifest
                /\ dCall' = [dCall EXCEPT !.returned = "false"]
    /\ UNCHANGED <<coreVars, compareVars, adapterVars, githubVars, modrinthVars,
                   genericVars, outdatedVars, lateVars>>

SpecProject == InitProject /\ [][UpdateDependencyVersionCall]_vars

(***************************************************************************)
(* ModrinthRepository.search and SpigetRepository.search: the per-hit      *)
(* version requests behind Promise.all.                                    *)
(***************************************************************************)

\* results.slice(0, 10)
FanOutLimit == 10

sPaperMixed == <<"P", "a", "p", "e", "r">>

sPaperUpper == <<"P", "A", "P", "E", "R">>

\* what the upstream answers to the version request of one hit: a failure,
\* or the version history (Modrinth) / the latest version alone (Spiget)
RequestFails == [fails |-> TRUE, versions |-> << >>]

ModrinthHistories ==
    LET e(n, d, l) == [version_number |-> n, date_published |-> d, loaders |-> l]
    IN  { << >>,
          << e("1.0", 1, <<sPaperMixed>>), e("2.0", 2, <<sFabric>>) >>,
          << e("2.0", 2, <<sFabric>>), e("1.0", 1, <<sFabric>>) >>,
          << e("1.0", 1, <<sPaper>>), e("3.0", 3, <<sFabric, sPaper>>),
             e("2.0", 2, <<sFabric>>) >>,
          << e("3.0", 3, <<sFabric>>), e("1.0", 1, <<sPaper>>), e("2.0", 2, <<sPaper>>) >>,
          << e("1.0", 2, <<sPaper>>), e("2.0", 2, <<sPaper>>) >>,
          << e("2.0", 1, << >>), e("1.0", 2, << >>) >> }

SpigetLatestVersions ==
    { << [version_number |-> n, date_published |-> 0, loaders |-> << >>] >> :
        n \in {"1.0", "2.0"} }

HitAnswers(adapter) ==
    {RequestFails} \cup
        { [fails |-> FALSE, versions |-> h] :
            h \in IF adapter = "modrinth" THEN ModrinthHistories ELSE SpigetLatestVersions }

\* the upstream hit lists: none, one, two, and one more than the fan-out
\* limit; the hits at odd places share one answer, those at even places another
HitCounts == {0, 1, 2, FanOutLimit + 1}

HitAnswerLists(adapter) ==
    { [i \in 1..n |-> IF i % 2 = 1 THEN a ELSE b] :
        n \in HitCounts, a \in HitAnswers(adapter), b \in HitAnswers(adapter) }

\* the places left in the order of the upstream list
SortByDatePublished_Unsorted(places, versions) == places

\* compatibleVersions.sort((a, b) => date(b) - date(a)): the places of the
\* versions in descending date order, equal dates keeping their order
SortByDatePublished(places, versions) ==
    LET Insert(sorted, k) ==
            LET n == Cardinality({j \in 1..Len(sorted) :
                        versions[sorted[j]].date_published >= versions[k].date_published})
            IN  SubSeq(sorted, 1, n) \o <<k>> \o SubSeq(sorted, n + 1, Len(sorted))
        S[i \in 0..Len(places)] ==
            IF i = 0 THEN << >> ELSE Insert(S[i - 1], places[i])
    IN  S[Len(places)]

\* the version_number search stores for a project with a non-empty history
ModrinthSearchLatest(versions, loaders) ==
    LET userLoaders == {ToLowerCase(loaders[j]) : j \in 1..Len(loaders)}
        all == [k \in 1..Len(versions) |-> k]
        Compatible(k) ==
            \E i \in 1..Len(versions[k].loaders) :
                ToLowerCase(versions[k].loaders[i]) \in userLoaders
        filtered == SelectSeq(all, Compatible)
        compatibleVersions ==
            IF Len(loaders) > 0 /\ Len(filtered) > 0 THEN filtered ELSE all
    IN  versions[SortByDatePublished(compatibleVersions, versions)[1]].version_number

\* a failed request dropping what the other requests stored
CaughtVersionMap_Reset(map, i) == [j \in DOMAIN map |-> << >>]

\* catch { /* Ignore errors */ }: the versionMap after the request of hit i failed
CaughtVersionMap(map, i) == map

InitHitSearch ==
    /\ hAdapter \in {"modrinth", "spigot"}
    /\ hHits \in HitAnswerLists(hAdapter)
    /\ hLoaders \in IF hAdapter = "modrinth" THEN {<< >>, <<sPaperUpper>>} ELSE {<< >>}
    /\ hPc = "idle"
    /\ hPending = {}
    /\ versionMap = << >>
    /\ hReturn = << >>
    /\ CoreIdle
    /\ CompareIdle
    /\ AdapterIdle
    /\ GithubIdle
    /\ ModrinthIdle
    /\ GenericIdle
    /\ OutdatedIdle
    /\ ProjectIdle
    /\ RegistryIdle
    /\ InstallIdle
    /\ RerunIdle

\* the search request answered: one version request per hit of slice(0, 10)
HitSearchCall ==
    /\ hPc = "idle"
    /\ hPc' = "awaiting"
    /\ hPending' = {i \in 1..Len(hHits) : i <= FanOutLimit}
    /\ versionMap' = [i \in 1..Len(hHits) |-> << >>]
    /\ UNCHANGED <<hAdapter, hHits, hLoaders, hReturn, besidesFanout>>

\* the search request fails: Spiget returns [], Modrinth throws
HitSearchFails ==
    /\ hPc = "idle"
    /\ hPc' = IF hAdapter = "spigot" THEN "returned" ELSE "threw"
    /\ UNCHANGED <<hAdapter, hHits, hLoaders, hPending, versionMap, hReturn, besidesFanout>>

\* the version request of hit i is answered
HitRequestFulfils(i) ==
    /\ hPc = "awaiting"
    /\ i \in hPending
    /\ ~hHits[i].fails
    /\ hPending' = hPending \ {i}
    /\ versionMap' =
          IF hAdapter = "spigot"
          THEN [versionMap EXCEPT ![i] = <<hHits[i].versions[1].version_number>>]
          ELSE IF Len(hHits[i].versions) > 0
          THEN [versionMap EXCEPT
                    ![i] = <<ModrinthSearchLatest(hHits[i].versions, hLoaders)>>]
          ELSE versionMap
    /\ UNCHANGED <<hAdapter, hHits, hLoaders, hPc, hReturn, besidesFanout>>

\* the version request of hit i fails
HitRequestFails(i) ==
    /\ hPc = "awaiting"
    /\ i \in hPending
    /\ hHits[i].fails
    /\ hPending' = hPending \ {i}
    /\ versionMap' = CaughtVersionMap(versionMap, i)
    /\ UNCHANGED <<hAdapter, hHits, hLoaders, hPc, hReturn, besidesFanout>>

\* Promise.all resolved: version: versionMap.get(id) || "latest"
HitSearchReturns ==
    /\ hPc = "awaiting"
    /\ hPending = {}
    /\ hPc' = "returned"
    /\ hReturn' = [i \in 1..Len(hHits) |->
                      IF versionMap[i] = << >> \/ versionMap[i] = <<"">>
                      THEN "latest" ELSE versionMap[i][1]]
    /\ UNCHANGED <<hAdapter, hHits, hLoaders, hPending, versionMap, besidesFanout>>

NextHitSearch ==
    \/ HitSearchCall
    \/ HitSearchFails
    \/ \E i \in 1..FanOutLimit : HitRequestFulfils(i)
    \/ \E i \in 1..FanOutLimit : HitRequestFails(i)
    \/ HitSearchReturns

SpecHitSearch == InitHitSearch /\ [][NextHitSearch]_vars

(***************************************************************************)
(* RepositoryManager (addRepository, loadFromConfig, get) and              *)
(* loadRepositories of lib/config with the GitHubRepository constructor.   *)
(***************************************************************************)

\* no adapter: what Map.get answers for an absent key
NoAdapter == [id |-> "", kind |-> "none", from |-> "", repos |-> << >>]

\* new SpigetRepository(), new ModrinthRepository()
BuiltInAdapters ==
    << [id |-> "spiget", kind |-> "builtin", from |-> "", repos |-> << >>],
       [id |-> "modrinth", kind |-> "builtin", from |-> "", repos |-> << >>] >>

\* the files of a repository directory: ext says whether the name ends with
\* .yml or .yaml, parses whether the YAML parser accepts the content; a
\* missing key is the empty string; name tells the files apart
ConfigFilesOf(label) ==
    { [ext |-> TRUE, parses |-> FALSE, id |-> "", name |-> label, baseUrl |-> ""],
      [ext |-> FALSE, parses |-> TRUE, id |-> "x", name |-> label, baseUrl |-> "u"],
      [ext |-> TRUE, parses |-> TRUE, id |-> "", name |-> label, baseUrl |-> "u"],
      [ext |-> TRUE, parses |-> TRUE, id |-> "x", name |-> "", baseUrl |-> "u"],
      [ext |-> TRUE, parses |-> TRUE, id |-> "x", name |-> label, baseUrl |-> ""],
      [ext |-> TRUE, parses |-> TRUE, id |-> "x", name |-> label, baseUrl |-> "u"],
      [ext |-> TRUE, parses |-> TRUE, id |-> "spiget", name |-> label, baseUrl |-> "u"],
      [ext |-> TRUE, parses |-> TRUE, id |-> "github", name |-> label, baseUrl |-> "u"] }

\* the entries of github.yml: a URL is the sequence of its parts between "/"
GitHubEntries ==
    { [url |-> <<"https:", "", "github.com", "o", "r">>, name |-> "R"],
      [url |-> <<"https:", "", "github.com", "o", "r.git">>, name |-> "R2"],
      [url |-> <<"https:", "", "github.com", "o", "q", "releases">>, name |-> "Q"],
      [url |-> <<"https:", "", "github.com", "o">>, name |-> "O"],
      [url |-> <<"https:", "", "gitlab.com", "o", "r">>, name |-> "L"] }

\* github.yml of a directory: missing, unparseable, or its repositories
GitHubFiles(entries) ==
    { [exists |-> FALSE, parses |-> FALSE, repositories |-> << >>],
      [exists |-> TRUE, parses |-> FALSE, repositories |-> << >>] } \cup
    { [exists |-> TRUE, parses |-> TRUE, repositories |-> r] :
        r \in {<<a>> : a \in entries} \cup
               {<<a, b>> : a \in {e \in entries : e.name = "R"}, b \in entries} }

\* the repository directories: at most two files in the global one, the
\* second a valid configuration, at most one in the local one (an
\* uninitialized project or a missing directory is an empty one)
GlobalDirs ==
    { [files |-> f, github |-> g] :
        f \in {<< >>} \cup {<<a>> : a \in ConfigFilesOf("G1")}
                \cup {<<a, b>> : a \in ConfigFilesOf("G1"),
                                 b \in {c \in ConfigFilesOf("G2") :
                                          c.ext /\ c.parses /\ c.id = "x" /\ c.name # ""
                                          /\ c.baseUrl # ""}},
        g \in GitHubFiles(GitHubEntries) }

LocalDirs ==
    { [files |-> f, github |-> g] :
        f \in {<< >>} \cup {<<a>> : a \in ConfigFilesOf("L1")},
        g \in GitHubFiles({e \in GitHubEntries : e.name \in {"R2", "L"}}) }

\* a Map that keeps the value a key was first set to
MapSet_KeepFirst(map, a) ==
    IF \E i \in 1..Len(map) : map[i].id = a.id THEN map ELSE Append(map, a)

\* Map.prototype.set: the value of an existing key is replaced in place, a
\* new key is appended
MapSet(map, a) ==
    IF \E i \in 1..Len(map) : map[i].id = a.id
    THEN [i \in 1..Len(map) |-> IF map[i].id = a.id THEN a ELSE map[i]]
    ELSE Append(map, a)

\* RepositoryManager.get
RegistryGet(map, id) ==
    IF \E i \in 1..Len(map) : map[i].id = id
    THEN map[CHOOSE i \in 1..Len(map) : map[i].id = id]
    ELSE NoAdapter

\* url.match(/github\.com\/([^/]+)\/([^/]+)/) with .replace(/\.git$/, ""):
\* the owner and the repository name, or ok = FALSE where the code throws
parseGitHubUrl(url) ==
    LET hosts == {i \in 1..Len(url) :
                    /\ url[i] \in {"github.com", "www.github.com"}
                    /\ i + 2 <= Len(url) /\ url[i + 1] # "" /\ url[i + 2] # ""}
        i == CHOOSE k \in hosts : \A j \in hosts : k <= j
    IN  IF hosts = {} THEN [ok |-> FALSE, owner |-> "", repoName |-> ""]
        ELSE [ok |-> TRUE, owner |-> url[i + 1],
              repoName |-> IF url[i + 2] = "r.git" THEN "r" ELSE url[i + 2]]

\* loadRepositories: the adapters it registers, in order, and whether it
\* throws (the GitHubRepository constructor parses every URL)
loadRepositories(globalDir, localDir) ==
    LET Accepted(f) ==
            f.ext /\ f.parses /\ f.id # "" /\ f.name # "" /\ f.baseUrl # ""
        readRepositoriesFromDir(dir) == SelectSeq(dir.files, Accepted)
        readGitHubRepos(dir) ==
            IF dir.github.exists /\ dir.github.parses THEN dir.github.repositories ELSE << >>
        configs == readRepositoriesFromDir(globalDir) \o readRepositoriesFromDir(localDir)
        githubRepos == readGitHubRepos(globalDir) \o readGitHubRepos(localDir)
        generic == [k \in 1..Len(configs) |->
                      [id |-> configs[k].id, kind |-> "generic", from |-> configs[k].name,
                       repos |-> << >>]]
        Entry(k) == LET p == parseGitHubUrl(githubRepos[k].url)
                    IN  [id |-> <<p.owner, p.repoName>>, name |-> githubRepos[k].name]
        M[k \in 0..Len(githubRepos)] ==
            IF k = 0 THEN << >> ELSE MapSet(M[k - 1], Entry(k))
    IN  IF githubRepos = << >> THEN [threw |-> FALSE, registered |-> generic]
        ELSE IF \E k \in 1..Len(githubRepos) : ~parseGitHubUrl(githubRepos[k].url).ok
        THEN [threw |-> TRUE, registered |-> generic]
        ELSE [threw |-> FALSE,
              registered |-> Append(generic,
                  [id |-> "github", kind |-> "github", from |-> "",
                   repos |-> M[Len(githubRepos)]])]

\* addRepository for each adapter of a list, in order
RegisterAll(map, adapters) ==
    LET R[k \in 0..Len(adapters)] ==
            IF k = 0 THEN map ELSE MapSet(R[k - 1], adapters[k])
    IN  R[Len(adapters)]

\* the adapter registered last under each id, after a list of registrations
LastAfter(last, adapters) ==
    [id \in DOMAIN last |->
        LET at == {k \in 1..Len(adapters) : adapters[k].id = id}
        IN  IF at = {} THEN last[id]
            ELSE adapters[CHOOSE k \in at : \A j \in at : j <= k]]

\* the adapters a caller can hand to addRepository and loadFromConfig
CustomAdapters ==
    { [id |-> i, kind |-> "generic", from |-> n, repos |-> << >>] :
        i \in {"x", "spiget"}, n \in {"A", "B"} }

InitRegistry ==
    /\ rGlobal \in GlobalDirs
    /\ rLocal \in LocalDirs
    /\ registry = BuiltInAdapters
    /\ rLast = LastAfter([id \in {"spiget", "modrinth", "x", "github"} |-> NoAdapter],
                         BuiltInAdapters)
    /\ rPc = "start"
    /\ CoreIdle
    /\ CompareIdle
    /\ AdapterIdle
    /\ GithubIdle
    /\ ModrinthIdle
    /\ GenericIdle
    /\ OutdatedIdle
    /\ ProjectIdle
    /\ FanoutIdle
    /\ InstallIdle
    /\ RerunIdle

\* a command calls loadRepositories()
LoadRepositoriesCall ==
    /\ rPc = "start"
    /\ LET r == loadRepositories(rGlobal, rLocal)
       IN  /\ registry' = RegisterAll(registry, r.registered)
           /\ rLast' = LastAfter(rLast, r.registered)
           /\ rPc' = IF r.threw THEN "threw" ELSE "loaded"
    /\ UNCHANGED <<rGlobal, rLocal, besidesRegistry>>

\* repositoryManager.addRepository(a)
AddRepositoryCall(a) ==
    /\ rPc \in {"loaded", "added"}
    /\ registry' = MapSet(registry, a)
    /\ rLast' = LastAfter(rLast, <<a>>)
    /\ rPc' = "added"
    /\ UNCHANGED <<rGlobal, rLocal, besidesRegistry>>

\* repositoryManager.loadFromConfig(<<a, b>>)
LoadFromConfigCall(a, b) ==
    /\ rPc \in {"loaded", "added"}
    /\ registry' = RegisterAll(registry, <<a, b>>)
    /\ rLast' = LastAfter(rLast, <<a, b>>)
    /\ rPc' = "added"
    /\ UNCHANGED <<rGlobal, rLocal, besidesRegistry>>

NextRegistry ==
    \/ LoadRepositoriesCall
    \/ \E a \in CustomAdapters : AddRepositoryCall(a)
    \/ \E a, b \in CustomAdapters : LoadFromConfigCall(a, b)

SpecRegistry == InitRegistry /\ [][NextRegistry]_vars

(***************************************************************************)
(* The install command: installPlugin and installFromSource.               *)
(***************************************************************************)

sNumericId == <<"1", "2", "3">>

sResourceName == <<"v", "i", "a">>

\* the id of the Spigot resource that a search for sResourceName finds
sFoundId == <<"4", "5", "6">>

\* the targets after parseSource: source "none" is a bare query, version
\* << >> is no version; no adapter is registered for "github" here
InstallTargets ==
    [source : {"none", "spigot", "modrinth", "github"},
     id : {sNumericId, sResourceName},
     version : {<< >>, <<"1", ".", "0">>}]

\* how far the command got with one target
NotStarted ==
    [source |-> "", id |-> Null, resolvedId |-> Null, steps |-> {}, status |-> "pending"]

\* /^\d+$/.test(id)
AllDigits(id) == Len(id) > 0 /\ \A k \in 1..Len(id) : IsDigit(id[k])

\* the versionInfo an adapter answers for a resource
InstallVersionInfo(resolvedId, version) ==
    [version |-> IF version # << >> THEN version ELSE <<"2", ".", "0">>,
     fileName |-> resolvedId \o <<".", "j", "a", "r">>]

\* the targets of the command, all still to be processed
InstallStart ==
    /\ iTargets \in UNION {[1..n -> InstallTargets] : n \in 0..2}
    /\ iIdx = 0
    /\ iPc = "start"
    /\ iRun = [t \in 1..Len(iTargets) |-> NotStarted]
    /\ iManifest = << >>
    /\ iFiles = {}

InitInstall ==
    /\ InstallStart
    /\ CoreIdle
    /\ CompareIdle
    /\ AdapterIdle
    /\ GithubIdle
    /\ ModrinthIdle
    /\ GenericIdle
    /\ OutdatedIdle
    /\ ProjectIdle
    /\ FanoutIdle
    /\ RegistryIdle
    /\ RerunIdle

\* a target given up ending the whole command
HaltTarget_Abort(status) ==
    /\ iRun' = [iRun EXCEPT ![iIdx].status = status]
    /\ iIdx' = iIdx
    /\ iPc' = "done"

\* a return or the catch of installFromSource / searchAndInstall: the
\* target is given up and the loop of installPlugin goes on
HaltTarget(status) ==
    /\ iRun' = [iRun EXCEPT ![iIdx].status = status]
    /\ iIdx' = iIdx + 1
    /\ iPc' = "target"

\* a step of installFromSource succeeded
StepDone(step, next) ==
    /\ iRun' = [iRun EXCEPT ![iIdx].steps = @ \cup {step}]
    /\ iPc' = next
    /\ UNCHANGED iIdx

\* installPlugin up to the target loop: no target, no project.yml, or
\* loadRepositories throws
InstallBegin ==
    /\ iPc = "start"
    /\ \E outcome \in {"no project", "load throws", "ok"} :
          iPc' = IF iTargets = << >> \/ outcome = "no project" THEN "done"
                 ELSE IF outcome = "load throws" THEN "threw" ELSE "target"
    /\ iIdx' = 1
    /\ UNCHANGED <<iTargets, iRun, iManifest, iFiles, besidesInstall>>

\* for (const target of targets): installFromSource for source:id,
\* searchAndInstall for a query (nothing found or chosen, or one hit chosen)
InstallTarget ==
    /\ iPc = "target"
    /\ IF iIdx > Len(iTargets)
       THEN iPc' = "done" /\ UNCHANGED <<iIdx, iRun>>
       ELSE LET t == iTargets[iIdx]
            IN  IF t.source # "none"
                THEN /\ iRun' = [iRun EXCEPT ![iIdx].source = t.source, ![iIdx].id = t.id]
                     /\ iPc' = "resolve"
                     /\ UNCHANGED iIdx
                ELSE \/ HaltTarget("no selection")
                     \/ \E s \in {"spigot", "modrinth"} :
                          /\ iRun' = [iRun EXCEPT ![iIdx].source = s,
                                                  ![iIdx].id = sFoundId]
                          /\ iPc' = "resolve"
                          /\ UNCHANGED iIdx
    /\ UNCHANGED <<iTargets, iManifest, iFiles, besidesInstall>>

\* repositoryManager.get(repoId); for Spigot a non-numeric id is searched
InstallResolveId ==
    /\ iPc = "resolve"
    /\ LET r == iRun[iIdx]
       IN  IF RepoIdOf(r.source) \notin BuiltInRepositories
           THEN HaltTarget("unknown source")
           ELSE IF r.source = "spigot" /\ ~AllDigits(r.id)
           THEN \/ HaltTarget("search failed")
                \/ HaltTarget("no results")
                \/ /\ iRun' = [iRun EXCEPT ![iIdx].resolvedId = sFoundId]
                   /\ iPc' = "resource"
                   /\ UNCHANGED iIdx
           ELSE /\ iRun' = [iRun EXCEPT ![iIdx].resolvedId = r.id]
                /\ iPc' = "resource"
                /\ UNCHANGED iIdx
    /\ UNCHANGED <<iTargets, iManifest, iFiles, besidesInstall>>

\* repo.getResource(resolvedId), then the external and premium checks
InstallGetResource ==
    /\ iPc = "resource"
    /\ \/ HaltTarget("failed")
       \/ iRun[iIdx].source = "spigot" /\ HaltTarget("external")
       \/ iRun[iIdx].source = "spigot" /\ HaltTarget("premium")
       \/ StepDone("getResource", "version")
    /\ UNCHANGED <<iTargets, iManifest, iFiles, besidesInstall>>

\* repo.getVersionDownload(resolvedId, version, loaders) when a version is
\* given, repo.getLatestVersion(resolvedId, loaders) otherwise
InstallGetVersion ==
    /\ iPc = "version"
    /\ \/ HaltTarget(IF iTargets[iIdx].version # << >> THEN "version not found"
                     ELSE "failed")
       \/ StepDone("version", "confirm")
    /\ UNCHANGED <<iTargets, iManifest, iFiles, besidesInstall>>

\* the compatibility check: compatible, or the user is asked
InstallConfirm ==
    /\ iPc = "confirm"
    /\ \/ HaltTarget("declined")
       \/ HaltTarget("failed")
       \/ StepDone("confirm", "download")
    /\ UNCHANGED <<iTargets, iManifest, iFiles, besidesInstall>>

\* downloadFile(versionInfo.downloadUrl, ...)
InstallDownload ==
    /\ iPc = "download"
    /\ \/ HaltTarget("failed") /\ UNCHANGED iFiles
       \/ /\ StepDone("download", "add")
          /\ iFiles' = iFiles \cup
                {InstallVersionInfo(iRun[iIdx].resolvedId, iTargets[iIdx].version).fileName}
    /\ UNCHANGED <<iTargets, iManifest, besidesInstall>>

\* addDependency(resource.name, {source, id, version, fileName}): the record
\* of that name is replaced or a new one appended; a resource is named by
\* the id it was fetched under
InstallAddDependency ==
    /\ iPc = "add"
    /\ \/ HaltTarget("failed") /\ UNCHANGED iManifest
       \/ LET r == iRun[iIdx]
              info == InstallVersionInfo(r.resolvedId, iTargets[iIdx].version)
              entry == [name |-> r.resolvedId, source |-> r.source, id |-> r.id,
                        version |-> info.version, fileName |-> info.fileName]
          IN  /\ iManifest' =
                    IF \E k \in 1..Len(iManifest) : iManifest[k].name = entry.name
                    THEN [k \in 1..Len(iManifest) |->
                            IF iManifest[k].name = entry.name THEN entry ELSE iManifest[k]]
                    ELSE Append(iManifest, entry)
              /\ HaltTarget("installed")
    /\ UNCHANGED <<iTargets, iFiles, besidesInstall>>

NextInstall ==
    \/ InstallBegin
    \/ InstallTarget
    \/ InstallResolveId
    \/ InstallGetResource
    \/ InstallGetVersion
    \/ InstallConfirm
    \/ InstallDownload
    \/ InstallAddDependency

SpecInstall == InitInstall /\ [][NextInstall]_vars

(***************************************************************************)
(* Two runs of update over one dependency against the same upstream: the   *)
(* names getVersions lists, the version string getVersionDownload returns  *)
(* and updateDependencyVersion writes.                                     *)
(***************************************************************************)

\* the version lists of the upstream (for GitHub, the release tags)
RerunUpstreams ==
    {<<a>> : a \in VersionNames}
        \cup {<<a, b>> : a \in VersionNames, b \in VersionNames}
        \cup {<<a, b, c>> : a \in VersionNames, b \in VersionNames, c \in VersionNames}

\* getVersions: GitHub lists r.tag_name.replace(/^v/, ""), Spiget the
\* version name, Modrinth the version_number
VersionEntriesOf(source, upstreamList) ==
    [k \in 1..Len(upstreamList) |->
        [name |-> IF source = "github" /\ StartsWith(upstreamList[k], <<"v">>)
                  THEN Tail(upstreamList[k]) ELSE upstreamList[k],
         gameVersions |-> Absent]]

\* the version strings getVersionDownload(id, version) can return: Spiget
\* and Modrinth the name of the first version so named, GitHub the tag of
\* the first request that is answered (a request can fail though its tag
\* exists); none when it throws
VersionsReturned(source, upstreamList, version) ==
    LET tags == {upstreamList[k] : k \in 1..Len(upstreamList)}
    IN  IF source = "github"
        THEN {t \in tags : \E k \in {1, 2, 3} : TagOfAttempt(version, k) = t}
        ELSE {t \in tags : t = version}

InitRerun ==
    /\ fMode \in BOOLEAN
    /\ fSource \in {"spigot", "modrinth", "github"}
    /\ fUpstream \in RerunUpstreams
    /\ fVersion \in VersionNames
    /\ fPc = "first"
    /\ fRuns = << >>
    /\ CoreIdle
    /\ CompareIdle
    /\ AdapterIdle
    /\ GithubIdle
    /\ ModrinthIdle
    /\ GenericIdle
    /\ OutdatedIdle
    /\ ProjectIdle
    /\ FanoutIdle
    /\ RegistryIdle
    /\ InstallIdle

\* one run of update (latest mode when fMode, minor mode otherwise): the
\* target is selected; getVersionDownload or the download may fail; else
\* the manifest version becomes the version string returned
UpdateRun ==
    /\ fPc \in {"first", "second"}
    /\ fPc' = IF fPc = "first" THEN "second" ELSE "done"
    /\ LET target == selectTarget(fMode, fVersion, VersionEntriesOf(fSource, fUpstream))
       IN  \/ /\ fRuns' = Append(fRuns, [target |-> target, applied |-> FALSE])
              /\ UNCHANGED fVersion
           \/ /\ target # NullEntry
              /\ \E w \in VersionsReturned(fSource, fUpstream, target.name) :
                    fVersion' = w
              /\ fRuns' = Append(fRuns, [target |-> target, applied |-> TRUE])
    /\ UNCHANGED <<fMode, fSource, fUpstream, besidesRerun>>

SpecRerun == InitRerun /\ [][UpdateRun]_vars

(***************************************************************************)
(* Parser properties.                                                      *)
(***************************************************************************)

Parsed == pResult # NotParsed

\* positions (1-based) of character c in s
Positions(s, c) == {i \in 1..Len(s) : s[i] = c}

SetMax(S) == CHOOSE m \in S : \A n \in S : n <= m

SetMin(S) == CHOOSE m \in S : \A n \in S : m <= n

\* C7: once parseSource has returned, exactly one of id and query is
\* non-null, source is non-null iff id is non-null, and the empty input
\* gives the empty query.
C7_ParserResultInvariant ==
    Parsed =>
        /\ (pResult.id # Null) # (pResult.query # Null)
        /\ (pResult.source # NullSource) <=> (pResult.id # Null)
        /\ (pInput = Empty => pResult.query = Empty)

C7_Witness ==
    /\ Parsed
    /\ pResult.source = "github"
    /\ pResult.id = <<"x">>
    /\ pResult.version # Null

\* C8: the input is split at the last '@' whose index is greater than 0:
\* version is what follows it and the main part is what precedes it; with
\* no such '@' version is null and the main part is the whole input.
C8_VersionDelimiter ==
    Parsed =>
        LET ats == Positions(pInput, "@") \ {1}
        IN  IF ats # {}
            THEN /\ pResult.version = SubSeq(pInput, SetMax(ats) + 1, Len(pInput))
                 /\ pMain = SubSeq(pInput, 1, SetMax(ats) - 1)
            ELSE /\ pResult.version = Null
                 /\ pMain = pInput

C8_Witness ==
    /\ Parsed
    /\ Len(pInput) >= 5
    /\ pInput[1] = "@"
    /\ Cardinality(Positions(pInput, "@")) = 3
    /\ pResult.version = <<"x">>

\* the four aliases and their canonical sources, as the claim lists them
CanonicalOf(alias) ==
    IF alias = <<"s", "p", "i", "g", "o", "t">> THEN "spigot"
    ELSE IF alias = <<"s", "p", "i", "g", "e", "t">> THEN "spigot"
    ELSE IF alias = <<"m", "o", "d", "r", "i", "n", "t", "h">> THEN "modrinth"
    ELSE IF alias = <<"g", "i", "t", "h", "u", "b">> THEN "github"
    ELSE NullSource

\* the prefix of the main part before its first ':' (empty when there is none)
PrefixOfMain == SubSeq(pMain, 1, SetMin(Positions(pMain, ":") \cup {Len(pMain) + 1}) - 1)

\* the main part after its first ':'
RemainderOfMain == SubSeq(pMain, Len(PrefixOfMain) + 2, Len(pMain))

HasKnownAlias ==
    /\ Positions(pMain, ":") # {}
    /\ PrefixOfMain # Empty
    /\ CanonicalOf(ToLowerCase(PrefixOfMain)) # NullSource

\* the input with its alias prefix replaced by the other alias of the same
\* canonical source, in capitals
OtherAlias(alias) ==
    IF alias = <<"s", "p", "i", "g", "o", "t">> THEN <<"S", "P", "I", "G", "E", "T">>
    ELSE IF alias = <<"s", "p", "i", "g", "e", "t">> THEN <<"S", "P", "I", "G", "O", "T">>
    ELSE IF alias = <<"m", "o", "d", "r", "i", "n", "t", "h">>
         THEN <<"m", "o", "d", "R", "I", "N", "T", "H">>
    ELSE <<"G", "i", "t", "H", "u", "b">>

WithOtherAlias ==
    OtherAlias(ToLowerCase(PrefixOfMain)) \o SubSeq(pInput, Len(PrefixOfMain) + 1, Len(pInput))

\* C9: a main part with a known alias (any letter case) before its first
\* ':' parses to the alias's canonical source, id = the remainder after that
\* ':' and query = null; the same input written with another alias of the
\* same canonical source, in another letter case, parses to the same result.
C9_KnownAlias ==
    (Parsed /\ HasKnownAlias) =>
        /\ pResult.source = CanonicalOf(ToLowerCase(PrefixOfMain))
        /\ pResult.id = RemainderOfMain
        /\ pResult.query = Null
        /\ parseSource(WithOtherAlias) = pResult

C9_Witness ==
    /\ Parsed
    /\ HasKnownAlias
    /\ PrefixOfMain = <<"S", "p", "i", "G", "e", "t">>
    /\ pResult.source = "spigot"
    /\ pResult.id = <<"x", ":", "x">>

\* C10: a main part without ':', with ':' at index 0, or whose prefix
\* before the first ':' is not one of the four aliases, parses to source =
\* null, id = null and query = the whole main part.
C10_FreeTextFallback ==
    (Parsed /\ ~HasKnownAlias) =>
        /\ pResult.source = NullSource
        /\ pResult.id = Null
        /\ pResult.query = pMain

(***************************************************************************)
(* Minor-update selection properties.                                      *)
(***************************************************************************)

\* indices of the candidates with the major of the installed version that
\* compare strictly greater than it
Eligible ==
    {i \in 1..Len(vList) :
        /\ parseVersion(vList[i].name).major = parseVersion(vCurrent).major
        /\ compareVersions(vList[i].name, vCurrent) = 1}

\* C1: findMinorUpdate returns null iff no candidate has the major of the
\* installed version and compares strictly greater than it; otherwise it
\* returns such a candidate than which no such candidate compares greater.
C1_MinorUpdateSelection ==
    vResult # NotRun =>
        /\ (vResult = NullEntry) <=> (Eligible = {})
        /\ (Eligible # {} =>
                \E i \in Eligible :
                    /\ vResult = vList[i]
                    /\ \A j \in Eligible : compareVersions(vList[j].name, vResult.name) # 1)
        /\ ((vCurrent = <<"5", ".", "1", ".", "0">>
                /\ vList = [i \in 1..4 |->
                        [name |-> << <<"5", ".", "0", ".", "9">>, <<"5", ".", "1", ".", "5">>,
                                     <<"6", ".", "0", ".", "0">>, <<"5", ".", "1", ".", "0">> >>[i],
                         gameVersions |-> Absent]])
             => vResult.name = <<"5", ".", "1", ".", "5">>)

C1_Witness ==
    /\ vResult # NotRun
    /\ vCurrent = <<"5", ".", "1", ".", "0">>
    /\ Len(vList) = 4
    /\ vList[1].name = <<"5", ".", "0", ".", "9">>
    /\ vList[2].name = <<"5", ".", "1", ".", "5">>
    /\ vList[3].name = <<"6", ".", "0", ".", "0">>
    /\ vList[4].name = <<"5", ".", "1", ".", "0">>
    /\ vResult.name = <<"5", ".", "1", ".", "5">>

(***************************************************************************)
(* Update planner properties.                                              *)
(***************************************************************************)

\* the check loop holds a target for the current dependency
HasTarget == uPc = "resolve" /\ uTarget # NullEntry

\* the compatibility the safe-mode filter is meant to decide: no game
\* versions listed, or one whose major.minor is the server's major.minor
SameMajorMinor(gameVersions, server) ==
    \/ gameVersions = Absent
    \/ gameVersions = << >>
    \/ \E k \in 1..Len(gameVersions) :
          FirstTwoParts(gameVersions[k]) = FirstTwoParts(server)

\* C2: with --safe, a chosen target is kept iff it lists no game versions
\* or lists one with the server's major.minor; otherwise the dependency is
\* recorded as skipped and gets no update.
C2_SafeModeFilter ==
    [][(HasTarget /\ useSafe) =>
          IF SameMajorMinor(uTarget.gameVersions, serverVersion)
          THEN skipped' = skipped
          ELSE /\ Len(skipped') = Len(skipped) + 1
               /\ skipped'[Len(skipped')].name = manifest[uIdx].name
               /\ updates' = updates]_vars

\* C3: in latest mode the target is the first entry of the adapter's list
\* when that entry compares strictly greater than the installed version, and
\* there is no target otherwise, whatever the later entries are.
C3_LatestModeHead ==
    (uPc = "resolve" /\ useLatest) =>
        uTarget = IF compareVersions(uVersions[1].name, manifest[uIdx].version) = 1
                  THEN uVersions[1]
                  ELSE NullEntry

C3_Witness ==
    /\ uPc = "resolve"
    /\ useLatest
    /\ Len(uVersions) = 2
    /\ compareVersions(uVersions[1].name, manifest[uIdx].version) = -1
    /\ compareVersions(uVersions[2].name, manifest[uIdx].version) = 1
    /\ uTarget = NullEntry

\* C4: getVersionDownload, getLatestVersion and the file download are never
\* invoked for a resource that is external or premium, and the manifest
\* record of such a resource is not changed.
C4_ExternalPremiumHalt ==
    \A i \in 1..Len(manifest) :
        (upstream[i].external \/ upstream[i].premium) =>
            /\ \A op \in {"getVersionDownload", "getLatestVersion", "downloadFile"} :
                  Call(op, i) \notin calls
            /\ manifest[i].version = InstalledVersion

(***************************************************************************)
(* searchAll properties.                                                   *)
(***************************************************************************)

\* what adapter i contributes: its hits if its search succeeded, nothing
\* if it failed
Contribution(i) == IF searchState[i] = "fulfilled" THEN searchResults[i] ELSE << >>

RECURSIVE ContributionsUpTo(_)
ContributionsUpTo(n) ==
    IF n = 0 THEN << >> ELSE ContributionsUpTo(n - 1) \o Contribution(n)

\* C5: whichever searches fail, searchAll does not fail, and it returns the
\* hits of the adapters whose search succeeded, concatenated in registration
\* order.
C5_SearchAllResilience ==
    /\ sPc # "threw"
    /\ (sPc = "returned" => sReturn = ContributionsUpTo(Len(repositories)))

C5_Witness ==
    /\ sPc = "returned"
    /\ Len(repositories) = 3
    /\ searchState[1] = "fulfilled"
    /\ searchState[2] = "rejected"
    /\ searchState[3] = "fulfilled"
    /\ Len(sReturn) = 3

\* all searches but one have settled and searchAll has not returned
OneSearchOutstanding ==
    /\ sPc = "awaiting"
    /\ Cardinality({i \in 1..Len(repositories) : searchState[i] = "pending"}) = 1

\* C6: if every search but one has settled and the remaining one never
\* settles, searchAll still eventually returns.
C6_SlowAdapterDoesNotBlock ==
    <>[]OneSearchOutstanding => <>(sPc = "returned")

(***************************************************************************)
(* Version comparator properties.                                          *)
(***************************************************************************)

Compared == cResult # << >>

\* C11: compareVersions(a, b) = -compareVersions(b, a), compareVersions(a, a)
\* = 0, and the result is one of -1, 0, 1.
C11_ComparatorAntisymmetry ==
    Compared =>
        /\ cResult[1] = 0 - cResult[2]
        /\ cResult[3] = 0
        /\ cResult[1] \in {-1, 0, 1}

C11_Witness ==
    /\ Compared
    /\ cA = <<"1", ".", "1", "0">>
    /\ cB = <<"1", ".", "2", "-", "b">>
    /\ cResult = <<1, -1, 0>>

\* the order of two number triples: -1, 0 or 1
TripleOrder(x, y) ==
    IF x[1] # y[1] THEN (IF x[1] < y[1] THEN -1 ELSE 1)
    ELSE IF x[2] # y[2] THEN (IF x[2] < y[2] THEN -1 ELSE 1)
    ELSE IF x[3] # y[3] THEN (IF x[3] < y[3] THEN -1 ELSE 1)
    ELSE 0

NumbersOf(version) ==
    LET v == parseVersion(version) IN <<v.major, v.minor, v.patch>>

ComparedPair(a, b) == Compared /\ cA = a /\ cB = b

\* C12: versions are ordered by major, then minor, then patch as numbers, a
\* missing minor or patch counting as 0 (1.2 equals 1.2.0, 1.10 is above
\* 1.2); with equal numbers an empty tail is above a non-empty one (1.2.0
\* above 1.2.0-b) and two non-empty tails compare equal.
C12_ComparatorOrdering ==
    /\ Compared =>
          LET order == TripleOrder(NumbersOf(cA), NumbersOf(cB))
              tailA == parseVersion(cA).prerelease
              tailB == parseVersion(cB).prerelease
          IN  cResult[1] =
                  IF order # 0 THEN order
                  ELSE IF tailA = Empty /\ tailB # Empty THEN 1
                  ELSE IF tailA # Empty /\ tailB = Empty THEN -1
                  ELSE 0
    /\ ComparedPair(<<"1", ".", "2">>, <<"1", ".", "2", ".", "0">>) => cResult[1] = 0
    /\ ComparedPair(<<"1", ".", "1", "0">>, <<"1", ".", "2">>) => cResult[1] = 1
    /\ ComparedPair(<<"1", ".", "2", ".", "0">>, <<"1", ".", "2", ".", "0", "-", "b">>)
          => cResult[1] = 1
    /\ ComparedPair(<<"1", ".", "2", "-", "b">>, <<"1", ".", "2", "-", "r", "c">>)
          => cResult[1] = 0
    /\ ComparedPair(<<"1", ".", "2", ".", "3">>, <<"1", ".", "2">>) => cResult[1] = 1

C12_Witness ==
    /\ ComparedPair(<<"1", ".", "2", ".", "0">>, <<"1", ".", "2", ".", "0", "-", "b">>)
    /\ cResult[1] = 1
    /\ cResult[2] = -1

\* a version string that starts with a digit, after an optional leading v
StartsWithDigit(version) ==
    LET cleaned == StripV(version) IN cleaned # << >> /\ IsDigit(cleaned[1])

\* C13: a string that does not start with a digit parses to 0.0.0 with the
\* string itself as prerelease, and compares below every version string
\* that does start with one.
C13_UnparseableBelowReal ==
    (Compared /\ ~StartsWithDigit(cA)) =>
        /\ parseVersion(cA) = [major |-> 0, minor |-> 0, patch |-> 0, prerelease |-> cA]
        /\ (StartsWithDigit(cB) => cResult[1] = -1)

(***************************************************************************)
(* Adapter failure properties.                                             *)
(***************************************************************************)

\* the failure an adapter's search documents as its upstream's way of
\* saying "no results": 404 for Spiget, a repository that is not found or
\* not accessible for GitHub
RecognizedNoResults(adapter, failure) ==
    \/ adapter = sSpigot /\ failure = "notFound"
    \/ adapter = sGithub /\ failure # "none"

\* C14: search gives the empty list for a failed request exactly when the
\* failure is the recognized "no results" signal and throws for any other
\* failure; a failed first request of any other method is thrown to the
\* caller.
C14_AdapterFailureSemantics ==
    (aOutcome # "none" /\ aCall.failure # "none") =>
        IF aCall.method = "search"
        THEN aOutcome = IF RecognizedNoResults(aCall.adapter, aCall.failure)
                        THEN "empty"
                        ELSE "thrown"
        ELSE aOutcome = "thrown"

(***************************************************************************)
(* GitHub version resolution properties.                                   *)
(***************************************************************************)

\* the tag as supplied, with a leading v added if it has none, with a
\* leading v removed if it has one
TagOrder(version) ==
    << version,
       IF version[1] = "v" THEN version ELSE <<"v">> \o version,
       IF version[1] = "v" THEN SubSeq(version, 2, Len(version)) ELSE version >>

\* a release has been resolved by the last request issued
TagResolved == gPc = "asset" \/ (gPc = "done" /\ gResult \in gReleases \cup {<<"no jar asset">>})

\* C15: the tags are requested in the order exact, with v, without v; a
\* request that resolves is the last one issued; the resolution fails only
\* after three requests, none of which resolved; an id that is not
\* configured fails with no request issued.
C15_GithubTagFallback ==
    gPc # "idle" =>
        /\ Len(gRequests) <= 3
        /\ \A k \in 1..Len(gRequests) : gRequests[k] = TagOrder(gCall.version)[k]
        /\ ~gCall.configured => gRequests = << >>
        /\ (gPc = "done" /\ ~gCall.configured) => gResult = <<"repository not found">>
        /\ TagResolved => gRequests[Len(gRequests)] \in gReleases
        /\ gResult = <<"request failed">> => (Len(gRequests) = 3 /\ gPc = "done")
        /\ (gPc = "done" /\ gCall.configured /\ ~TagResolved) => gResult = <<"request failed">>

C15_Witness ==
    /\ gPc = "done"
    /\ gCall.version = <<"1", ".", "0">>
    /\ gRequests = << <<"1", ".", "0">>, <<"v", "1", ".", "0">> >>
    /\ gResult = <<"v", "1", ".", "0">>

(***************************************************************************)
(* Modrinth file selection properties.                                     *)
(***************************************************************************)

\* the places of the versions that carry one of the supplied loaders
WithSuppliedLoader == {k \in 1..Len(mVersions) : HasLoader(mVersions[k], mLoaders)}

\* the places of the versions that match the version asked for
MatchingRequest ==
    {k \in 1..Len(mVersions) :
        mVersions[k].version_number = mVersion \/ ModrinthIdOf(k) = mVersion}

\* C16: with loaders supplied, getLatestVersion returns a version of a
\* supplied loader when there is one, and getVersionDownload returns a
\* version of a supplied loader when one of the versions asked for has one;
\* the file is the primary one, or the first when none is primary; a
\* chosen version without files makes the call fail.
C16_ModrinthFileSelection ==
    mResult # NoAnswer =>
        /\ (mResult.call = "getLatestVersion" /\ mLoaders # << >> /\ WithSuppliedLoader # {})
              => mResult.index \in WithSuppliedLoader
        /\ (mResult.call = "getVersionDownload" /\ mLoaders # << >>
                /\ MatchingRequest \cap WithSuppliedLoader # {})
              => mResult.index \in WithSuppliedLoader
        /\ mResult.index # 0 =>
              LET fs == mVersions[mResult.index].files
              IN  IF fs = << >> THEN mResult.status = "no files"
                  ELSE /\ mResult.status = "value"
                       /\ \E i \in 1..Len(fs) :
                             /\ fs[i].filename = mResult.fileName
                             /\ fs[i].primary \/ (i = 1 /\ \A j \in 1..Len(fs) : ~fs[j].primary)

(***************************************************************************)
(* Generic adapter properties.                                             *)
(***************************************************************************)

\* the value the path leads to in the JSON value itself: own keys of
\* objects and indices of arrays only
RECURSIVE JsonFollow(_, _)
JsonFollow(o, segments) ==
    IF segments = << >> THEN o
    ELSE IF o.t \in {"object", "array"} /\ \E k \in 1..Len(o.kids) : o.kids[k].key = Head(segments)
    THEN JsonFollow(o.kids[CHOOSE k \in 1..Len(o.kids) : o.kids[k].key = Head(segments)].val,
                    Tail(segments))
    ELSE Undefined

\* C17: a mapped value that is missing, an object or an array gives the
\* empty string, or the fallback of the field, in every field of a search
\* result and of the VersionInfo of getLatestVersion; it never gives
\* "undefined" or "[object Object]".
C17_GenericValueCoercion ==
    (jResult.call \in {"search", "getLatestVersion"} /\ jPath # << >>
        /\ JsonFollow(jDoc, Split(jPath)).t \in {"undefined", "object", "array"})
    => \A k \in 1..Len(jResult.fields) : jResult.fields[k] \in {"", "Unknown", "p-.jar"}

\* C18: resolvePath returns the value the path leads to through object
\* keys and array indices, undefined when a segment is missing or the
\* value reached is no object, and the value itself for the empty path.
C18_GenericPathResolution ==
    jResult.call = "resolvePath" =>
        jResult.value = IF jPath = << >> THEN jDoc ELSE JsonFollow(jDoc, Split(jPath))

(***************************************************************************)
(* Batch properties of update and outdated.                                *)
(***************************************************************************)

\* the loop over the dependencies of the manifest is over
CheckLoopOver == uPc \in {"apply", "done"} /\ Len(manifest) > 0

\* C19: whatever adapter call or download fails, the loop over the
\* dependencies reaches every dependency that has an adapter, and update
\* attempts every update it found: each is either applied to the manifest
\* or counted as failed.
C19_BatchIsolation ==
    /\ CheckLoopOver =>
          \A i \in 1..Len(manifest) :
              HasRepo(manifest[i]) => Call("getVersions", i) \in calls
    /\ (uPc = "done" /\ command = "update") =>
          /\ \A k \in 1..Len(updates) :
                Call("downloadFile", IndexOfName(updates[k].name)) \in calls
          /\ updatedCount + failedCount = Len(updates)
          /\ Cardinality({i \in 1..Len(manifest) : manifest[i].version # InstalledVersion})
                = updatedCount

C19_Witness ==
    /\ uPc = "done"
    /\ command = "update"
    /\ Len(manifest) = 2
    /\ failedCount = 1
    /\ updatedCount = 1
    /\ manifest[1].version = InstalledVersion
    /\ manifest[2].version # InstalledVersion

(***************************************************************************)
(* Dependency record properties.                                           *)
(***************************************************************************)

\* C20: updateDependencyVersion changes only the version and the fileName
\* of the record called name, and no other record; when there is no record
\* called name it returns false and writes nothing.
C20_UpdateDependencyFrame ==
    dCall.returned # "none" =>
        /\ Len(dManifest) = Len(dCall.before)
        /\ \A i \in 1..Len(dManifest) :
              IF dManifest[i].name = dCall.name
              THEN /\ dManifest[i].source = dCall.before[i].source
                   /\ dManifest[i].id = dCall.before[i].id
                   /\ dManifest[i].version = dCall.version
                   /\ dManifest[i].fileName \in {dCall.fileName, dCall.before[i].fileName}
              ELSE dManifest[i] = dCall.before[i]
        /\ (\A i \in 1..Len(dCall.before) : dCall.before[i].name # dCall.name)
              => (dCall.returned = "false" /\ ~dCall.written)

(***************************************************************************)
(* Adapter search properties.                                              *)
(***************************************************************************)

\* the hits of the first FanOutLimit whose history was fetched and is non-empty
FetchedHits ==
    {i \in 1..Len(hHits) : i <= FanOutLimit /\ ~hHits[i].fails /\ Len(hHits[i].versions) > 0}

\* the entries of a history that carry a requested loader, case ignored; all
\* entries when no loader is requested or none matches
CandidateEntries(versions, loaders) ==
    LET matching == {k \in 1..Len(versions) :
                        \E i \in 1..Len(versions[k].loaders) : \E j \in 1..Len(loaders) :
                            ToLowerCase(versions[k].loaders[i]) = ToLowerCase(loaders[j])}
    IN  IF loaders = << >> \/ matching = {} THEN 1..Len(versions) ELSE matching

\* C21: in a Modrinth search the version reported for a hit of the first 10
\* whose version history was fetched and is not empty is the version number
\* of an entry with the greatest publication timestamp among the entries
\* that carry a requested loader (case ignored), or among all entries when
\* no loader is requested or none matches.
C21_SearchTrueLatest ==
    (hAdapter = "modrinth" /\ hPc = "returned" /\ hReturn # << >>) =>
        \A i \in FetchedHits :
            LET cand == CandidateEntries(hHits[i].versions, hLoaders)
            IN  \E k \in cand :
                    /\ hReturn[i] = hHits[i].versions[k].version_number
                    /\ \A j \in cand : hHits[i].versions[j].date_published
                                        <= hHits[i].versions[k].date_published

\* a search returned where the latest matching entry of a fetched history is
\* neither its first entry nor its most recent one
C21_Witness ==
    /\ hAdapter = "modrinth"
    /\ hPc = "returned"
    /\ hLoaders # << >>
    /\ \E i \in FetchedHits :
          /\ hReturn[i] = "2.0"
          /\ hHits[i].versions[1].version_number = "3.0"
          /\ CandidateEntries(hHits[i].versions, hLoaders) = {2, 3}

\* what the version request of hit i alone contributes to the result
OwnVersion(i) ==
    IF i > FanOutLimit \/ hHits[i].fails \/ hHits[i].versions = << >> THEN "latest"
    ELSE IF hAdapter = "spigot" THEN hHits[i].versions[1].version_number
    ELSE ModrinthSearchLatest(hHits[i].versions, hLoaders)

\* C22: in the Modrinth and Spiget search only the first 10 hits get a
\* version request; in whatever order the requests settle, a failed request
\* leaves its own hit alone with the placeholder "latest" and no request
\* touches the entry of another hit; search throws only when the search
\* request itself failed; hits after the 10th carry "latest"; the result
\* has the length and the order of the upstream hit list.
C22_FanOutIsolation ==
    /\ hPc = "threw" => versionMap = << >>
    /\ hPc = "awaiting" =>
          /\ hPending \subseteq {i \in 1..Len(hHits) : i <= FanOutLimit}
          /\ \A i \in 1..Len(hHits) :
                versionMap[i] =
                    IF i \in hPending \/ OwnVersion(i) = "latest" THEN << >>
                    ELSE <<OwnVersion(i)>>
    /\ (hPc = "returned" /\ versionMap # << >>) =>
          /\ Len(hReturn) = Len(hHits)
          /\ \A i \in 1..Len(hHits) : hReturn[i] = OwnVersion(i)
          /\ \A i \in 1..Len(hHits) : (i > FanOutLimit \/ hHits[i].fails) => hReturn[i] = "latest"

\* a search over more hits than the limit returned although requests failed,
\* the hits whose request was answered carrying their version
C22_Witness ==
    /\ hPc = "returned"
    /\ Len(hHits) > FanOutLimit
    /\ Len(hReturn) = Len(hHits)
    /\ \E i, j \in 1..FanOutLimit : hHits[i].fails /\ hReturn[j] # "latest"
    /\ hReturn[Len(hHits)] = "latest"

(***************************************************************************)
(* Registry and configuration loading properties.                          *)
(***************************************************************************)

\* the configuration files of a directory that loadRepositories must accept
ValidConfigs(dir) ==
    {k \in 1..Len(dir.files) :
        LET f == dir.files[k]
        IN  f.ext /\ f.parses /\ f.id # "" /\ f.name # "" /\ f.baseUrl # ""}

\* loadRepositories registered a release-host adapter
GitHubRegistered == rLast["github"].kind = "github"

\* C23: the registry holds at most one adapter per id and get(id) answers
\* the adapter registered last under that id; so after loadRepositories a
\* local configuration wins over a global one of the same id, and a
\* configuration named like a built-in adapter replaces it (the release-host
\* adapter, registered last under "github", wins over a configuration of
\* that id).
C23_RegistryLastWins ==
    rPc # "idle" =>
        /\ \A i, j \in 1..Len(registry) : registry[i].id = registry[j].id => i = j
        /\ \A id \in DOMAIN rLast : RegistryGet(registry, id) = rLast[id]
        /\ rPc = "loaded" =>
              /\ \A k \in ValidConfigs(rLocal) :
                    (rLocal.files[k].id = "github" /\ GitHubRegistered)
                    \/ RegistryGet(registry, rLocal.files[k].id).from = rLocal.files[k].name
              /\ \A k \in ValidConfigs(rGlobal) :
                    rGlobal.files[k].id = "spiget" =>
                        RegistryGet(registry, "spiget").kind = "generic"

\* loadRepositories returned: the local configuration replaced a global one
\* of its id, and a later addRepository replaced the local one in turn
C23_Witness ==
    /\ rPc = "added"
    /\ \E k \in ValidConfigs(rLocal) : \E g \in ValidConfigs(rGlobal) :
          /\ rLocal.files[k].id = rGlobal.files[g].id
          /\ rLocal.files[k].id = "x"
          /\ RegistryGet(registry, "x").from = "B"
    /\ Len(registry) = 3

\* the entries of the github.yml files that loadRepositories reads, in order
GitHubEntriesRead ==
    LET Read(dir) == IF dir.github.exists /\ dir.github.parses
                     THEN dir.github.repositories ELSE << >>
    IN  Read(rGlobal) \o Read(rLocal)

\* C29: loadRepositories never fails on a malformed entry: configuration
\* files that do not parse or lack id, name or baseUrl and release-host
\* entries whose URL names no github.com owner/repo are skipped, and every
\* valid configuration and every valid release-host entry is registered.
C29_LoadToleratesBadEntries ==
    /\ rPc # "threw"
    /\ rPc = "loaded" =>
          /\ \A dir \in {rGlobal, rLocal} : \A k \in ValidConfigs(dir) :
                RegistryGet(registry, dir.files[k].id).kind \in {"generic", "github"}
          /\ \A k \in 1..Len(GitHubEntriesRead) :
                LET p == parseGitHubUrl(GitHubEntriesRead[k].url)
                IN  p.ok =>
                        \E i \in 1..Len(RegistryGet(registry, "github").repos) :
                            RegistryGet(registry, "github").repos[i].id
                                = <<p.owner, p.repoName>>

(***************************************************************************)
(* Install properties.                                                     *)
(***************************************************************************)

\* C24: after a successful install the dependency record carries the id
\* under which the resource was fetched (the resolved id handed to
\* getResource and to getLatestVersion / getVersionDownload), also when a
\* Spigot resource was given by name and resolved through search.
C24_InstallRecordsResolvedId ==
    \A t \in 1..Len(iRun) :
        iRun[t].status = "installed" =>
            \E k \in 1..Len(iManifest) :
                /\ iManifest[k].source = iRun[t].source
                /\ iManifest[k].id = iRun[t].resolvedId

\* C30: the manifest changes only in addDependency, after getResource, the
\* version resolution and the download of the same target have succeeded;
\* a target that is given up leaves the manifest as it was and the loop
\* goes on to the next target, so the command ends with no target pending.
C30_InstallWritesManifestLast ==
    [][ /\ iManifest' # iManifest =>
              /\ iPc = "add"
              /\ {"getResource", "version", "download"} \subseteq iRun[iIdx].steps
              /\ iRun'[iIdx].status = "installed"
        /\ (iIdx \in 1..Len(iRun) /\ iRun[iIdx].status = "pending"
              /\ iRun'[iIdx].status \notin {"pending", "installed"}) =>
              /\ iManifest' = iManifest
              /\ iPc' = "target" /\ iIdx' = iIdx + 1
        /\ (iPc = "target" /\ iPc' = "done") =>
              \A t \in 1..Len(iRun) : iRun[t].status # "pending"
      ]_vars

\* the command ended: its first target was given up, its second installed
C30_Witness ==
    /\ iPc = "done"
    /\ Len(iTargets) = 2
    /\ iRun[1].status \in {"external", "version not found", "declined", "failed"}
    /\ iRun[2].status = "installed"
    /\ Len(iManifest) = 1

(***************************************************************************)
(* Properties of the update run: files, outdated, round trip, fixpoint.    *)
(***************************************************************************)

\* C25: a download that fails while an update is applied leaves the file
\* installed before and the manifest record as they were; every dependency
\* whose recorded file existed before the run (each one, in this model)
\* still records the name of a file that exists.
C25_UpdateKeepsFileAndManifest ==
    \A i \in 1..Len(manifest) : manifest[i].fileName \in files

\* C26: every dependency for which update in its default mode (minor,
\* not safe) selects a target out of a version list is listed by outdated
\* when outdated is given the same list.
C26_OutdatedAgreesWithUpdate ==
    (command = "outdated" /\ oChecked.dep > 0) =>
        LET d == manifest[oChecked.dep]
        IN  selectTarget(FALSE, d.version, oChecked.versions) # NullEntry =>
                \E k \in 1..Len(outdated) : outdated[k].name = d.name

\* C27: for every entry e of getVersions(id), getVersionDownload(id, e.name)
\* that returns a version resolves to the upstream version that e stands
\* for (here the Modrinth version at the place of e), also when several
\* entries carry one name.
C27_VersionListRoundTrip ==
    (mResult.call = "getVersionDownload" /\ mResult.status = "value") =>
        \A k \in 1..Len(mVersions) :
            mVersions[k].version_number = mVersion => mResult.index = k

====
